---- MODULE Spec2Model ----
(***************************************************************************)
(* Intent resolution and dialogue state of the wallet assistant.           *)
(*                                                                         *)
(* A prompt is a sequence of words (the whitespace-separated pieces of the *)
(* text).  The regular expressions of the catalog are translated word by   *)
(* word: \s+ is the boundary between two words, a literal alternation is a *)
(* set of lower-cased words (all patterns carry the /i flag), and the      *)
(* classes for a numeral, a word and a run of words are atoms of the       *)
(* matcher below.                                                          *)
(* SOL amounts and balances are integers in micro-SOL (1e-6 SOL), the      *)
(* resolution of the network fee 0.000005 SOL = 5; a numeral in a prompt   *)
(* is written in the same unit.                                            *)
(***************************************************************************)
EXTENDS Integers, Sequences, FiniteSets, TLC

VARIABLES prompt, context, result, conversationContext, invoked, updates,
          walletAddress, userProfile, messages, retryCount, retryCalls,
          hasGivenWalletWelcome, session,
          cachedTokenPrices, now, priceFeed, lookup, inFlight, sweep,
          sessionId, requestedSessionId, fetches, hook, transactions, walletCalls

\* the fields of the context manager and of the session orchestrator
managerVars == <<walletAddress, userProfile, messages, retryCount, retryCalls>>
sessionVars == <<hasGivenWalletWelcome, session>>
\* the price cache, the clock, the answer of the price service to the next
\* request, and what the price lookup of the current call did
priceVars == <<cachedTokenPrices, now, priceFeed, lookup>>
\* the id of the session and the id its creator asked for
factoryVars == <<sessionId, requestedSessionId>>
\* the price lookups in flight, the state of the market-trends hook with
\* its fetches in flight, and the transactions handled
asyncVars == <<fetches, hook, transactions>>

vars == <<prompt, context, result, conversationContext, invoked, updates,
          walletAddress, userProfile, messages, retryCount, retryCalls,
          hasGivenWalletWelcome, session,
          cachedTokenPrices, now, priceFeed, lookup, inFlight, sweep,
          sessionId, requestedSessionId, fetches, hook, transactions, walletCalls>>

\* ------------------------------------------------------------------ bounds
MaxTurns == 2
MaxBalance == 110
MaxAmount == 110
MaxUpdates == 9
MaxTipTurns == 3
MaxMessages == 3
MaxRetryCalls == 6
MaxPriceTurns == 2
MaxTime == 60
MaxCalls == 2
MaxFetches == 3
MaxWalletCalls == 3
MaxTransactions == 2

\* ------------------------------------------------------- program constants
TransactionFee == 5
MaxRecentTopics == 8
MaxRecentTokens == 10
MaxPreferredActions == 3
MaxFavoriteTokens == 5
MaxSuggestions == 3
LowBalanceThreshold == 50000
maxRetries == 3
\* 60000 ms; the clock of the model counts seconds
CacheValidity == 60
NaN == 0 - 1

\* ----------------------------------------------------------- text helpers
UpperLetters == <<"A", "B", "C", "D", "E", "F", "G", "H", "I", "J", "K", "L", "M",
                  "N", "O", "P", "Q", "R", "S", "T", "U", "V", "W", "X", "Y", "Z">>
LowerLetters == <<"a", "b", "c", "d", "e", "f", "g", "h", "i", "j", "k", "l", "m",
                  "n", "o", "p", "q", "r", "s", "t", "u", "v", "w", "x", "y", "z">>

LowerChar(c) == IF \E i \in 1..26 : UpperLetters[i] = c
                THEN LowerLetters[CHOOSE i \in 1..26 : UpperLetters[i] = c] ELSE c
UpperChar(c) == IF \E i \in 1..26 : LowerLetters[i] = c
                THEN UpperLetters[CHOOSE i \in 1..26 : LowerLetters[i] = c] ELSE c

RECURSIVE LowerChars(_, _)
LowerChars(w, i) ==
  IF i > Len(w) THEN "" ELSE LowerChar(SubSeq(w, i, i)) \o LowerChars(w, i + 1)
RECURSIVE UpperChars(_, _)
UpperChars(w, i) ==
  IF i > Len(w) THEN "" ELSE UpperChar(SubSeq(w, i, i)) \o UpperChars(w, i + 1)

\* The words prompts are made of
Addr1 == "7xKXtg2CW87d97TXJSDpbD5jBkheTqA83TZRuJosgAsU"
BadAddr == "0xDEADBEEF"
Numerals == {ToString(n) : n \in 0..MaxAmount}
PlainWords == {"please", "Send", "Swap", "SOL", "USDC", "AKT", "JUP", "to", Addr1, BadAddr,
  "Tell", "me", "about", "What", "is", "the", "price", "of", "Check", "my", "balance",
  "Show", "transaction", "history", "market", "trends", "help", "how", "does", "staking",
  "work", "analysis", "investment", "advice", "hello", "thanks", "who", "are", "you",
  "all"}
Vocabulary == PlainWords \cup Numerals

\* String.prototype.toLowerCase / toUpperCase, tabulated over the vocabulary
LowerOf == [w \in Vocabulary |-> LowerChars(w, 1)]
ToLowerCase(w) == IF w \in Vocabulary THEN LowerOf[w] ELSE LowerChars(w, 1)
UpperOf == [w \in Vocabulary \cup {LowerOf[v] : v \in Vocabulary} |-> UpperChars(w, 1)]
ToUpperCase(w) == IF w \in DOMAIN UpperOf THEN UpperOf[w] ELSE UpperChars(w, 1)

\* prompt.toLowerCase()
LowerPrompt(p) == [i \in 1..Len(p) |-> ToLowerCase(p[i])]

\* parseFloat on a captured group: the number a numeral denotes, NaN otherwise
NumeralValue == [s \in Numerals |-> CHOOSE n \in 0..MaxAmount : ToString(n) = s]
ParseFloat(s) == IF s \in Numerals THEN NumeralValue[s] ELSE NaN

NonWordWords == {"what's", "how's"}

RECURSIVE Join(_)
Join(ws) == IF Len(ws) = 0 THEN ""
            ELSE IF Len(ws) = 1 THEN ws[1]
            ELSE ws[1] \o " " \o Join(Tail(ws))

\* ------------------------------------------------------ inputs
OwnAddress == "9WzDXwBbmkg8ZTbNMqUxvQRAyrZzDsGYdLVL9zYtAWWM"

Opt(ws) == {<<>>} \cup {<<x>> : x \in ws}

RouterAmounts == {0, 5, 6}
RouterBalances == {4, 10}
RouterTokenBalances == {0, 6}

\* command-like prompts: [please] [verb] [amount] [token] [to] [target]
CommandPrompts ==
  {pre \o verb \o num \o tok \o conn \o tail :
     pre \in Opt({"please"}), verb \in Opt({"Send", "Swap"}),
     num \in Opt({ToString(a) : a \in RouterAmounts}),
     tok \in Opt({"SOL", "USDC", "AKT"}), conn \in Opt({"to"}),
     tail \in Opt({Addr1, "USDC", BadAddr})}

QuestionPrompts == {
  <<"Check", "my", "balance">>, <<"Tell", "me", "about", "JUP">>,
  <<"What", "is", "SOL">>, <<"price", "of", "SOL">>,
  <<"What", "is", "the", "price", "of", "SOL">>,
  <<"Show", "my", "transaction", "history">>, <<"market", "trends">>,
  <<"how", "is", "the", "market">>, <<"help">>,
  <<"help", "me", "Send", "5", "SOL", Addr1>>,
  <<"how", "does", "staking", "work">>, <<"market", "analysis">>,
  <<"investment", "advice">>, <<"hello">>, <<"hello", Addr1>>, <<"thanks">>,
  <<"who", "are", "you">>, <<"Swap", "all", "SOL", "to", "USDC">>,
  <<"Swap", "all", "my", "SOL", "to", "USDC">>}

Prompts == CommandPrompts \cup QuestionPrompts

Contexts(balances, tokenBalances) ==
  {[walletConnected |-> c, walletAddress |-> IF c THEN OwnAddress ELSE "",
    balance |-> b, tokenBalances |-> [USDC |-> tb]] :
     c \in BOOLEAN, b \in balances, tb \in tokenBalances}

RouterContexts == Contexts(RouterBalances, RouterTokenBalances)

\* transfer commands over the whole range of amounts and balances
GuardPrompts ==
  {<<"Send", ToString(a), tok>> \o conn \o tail :
     a \in 0..MaxAmount, tok \in {"SOL", "USDC"}, conn \in {<<"to">>},
     tail \in Opt({Addr1})}

GuardContexts == Contexts(0..MaxBalance, {0})


\* a conversation long enough for every tip: one prompt per topic the tips
\* look at, wallets with a low and with a comfortable balance
TipPrompts == {<<"Check", "my", "balance">>, <<"Swap", "5", "SOL", "to", "USDC">>,
               <<"What", "is", "SOL">>, <<"market", "trends">>,
               <<"Show", "my", "transaction", "history">>, <<"market", "analysis">>}
TipBalances == {10, 60000}
TipContexts == Contexts(TipBalances, {0})

AllPrompts == Prompts \cup GuardPrompts \cup TipPrompts

\* arguments of updateConversationContext: an input with a technical term,
\* one with a casual term inside a longer word, one with both, one with neither
MemoryCalls == {
  [userInput |-> <<"What", "is", "the", "TVL">>, matchedOperation |-> "tokenInfo",
   tokensMentioned |-> <<"SOL", "USDC", "USDT">>],
  [userInput |-> <<"moonshot", "soon">>, matchedOperation |-> "swap",
   tokensMentioned |-> <<"BONK", "JUP">>],
  [userInput |-> <<"pump", "the", "liquidity">>, matchedOperation |-> "balance",
   tokensMentioned |-> <<"JTO">>],
  [userInput |-> <<"hello">>, matchedOperation |-> "help", tokensMentioned |-> <<>>]}

\* ------------------------------------------------------ pattern atoms
L(s) == [k |-> "lit", s |-> s, c |-> FALSE]
O(s) == [k |-> "opt", s |-> s, c |-> FALSE]
N == [k |-> "num", s |-> {}, c |-> TRUE]
W == [k |-> "word", s |-> {}, c |-> TRUE]
OW == [k |-> "optword", s |-> {}, c |-> FALSE]
X == [k |-> "any", s |-> {}, c |-> TRUE]
R == [k |-> "rest", s |-> {}, c |-> TRUE]
TransferTokens == {"sol", "usdc", "usdt", "bonk", "jup", "jto", "ray", "pyth", "meme", "wif"}
T == [k |-> "lit", s |-> TransferTokens, c |-> TRUE]
TransferVerbs == {"send", "transfer", "pay", "give"}

AtomAccepts(a, w) ==
  CASE a.k \in {"lit", "opt"} -> ToLowerCase(w) \in a.s
    [] a.k = "num" -> w \in Numerals
    [] a.k \in {"word", "optword"} -> w \notin NonWordWords
    [] OTHER -> TRUE

\* Backtracking matcher: <<>> when the atoms do not match the words from
\* position i on, else << captures >> of the first alternative a regular
\* expression engine finds (optional atoms and (.+) are greedy).
RECURSIVE MatchAtoms(_, _, _, _)
RECURSIVE RestMatch(_, _, _, _, _)
MatchAtoms(atoms, k, w, i) ==
  IF k > Len(atoms) THEN << <<>> >>
  ELSE LET a == atoms[k] IN
    IF a.k = "rest" THEN RestMatch(atoms, k, w, i, Len(w))
    ELSE LET take == IF i <= Len(w) /\ AtomAccepts(a, w[i])
                     THEN MatchAtoms(atoms, k + 1, w, i + 1) ELSE <<>>
         IN IF take # <<>>
            THEN (IF a.c THEN << <<w[i]>> \o take[1] >> ELSE take)
            ELSE IF a.k \in {"opt", "optword"}
                 THEN MatchAtoms(atoms, k + 1, w, i) ELSE <<>>

RestMatch(atoms, k, w, i, j) ==
  IF j < i THEN <<>>
  ELSE LET r == MatchAtoms(atoms, k + 1, w, j + 1) IN
       IF r # <<>> THEN << <<Join(SubSeq(w, i, j))>> \o r[1] >>
       ELSE RestMatch(atoms, k, w, i, j - 1)

\* A pattern is a sequence of variants (the expansions of its multi-word
\* alternations, in the order the engine tries them).
RECURSIVE MatchVariants(_, _, _, _)
MatchVariants(pat, v, w, i) ==
  IF v > Len(pat) THEN <<>>
  ELSE LET m == MatchAtoms(pat[v], 1, w, i) IN
       IF m # <<>> THEN m ELSE MatchVariants(pat, v + 1, w, i)

\* String.prototype.match(pattern) without the g flag: leftmost match;
\* <<>> is null, else << [input, groups] >> with groups[n] = match[n].
RECURSIVE MatchFrom(_, _, _)
MatchFrom(pat, w, i) ==
  IF i > Len(w) THEN <<>>
  ELSE LET m == MatchVariants(pat, 1, w, i) IN
       IF m # <<>> THEN << [input |-> w, groups |-> m[1]] >>
       ELSE MatchFrom(pat, w, i + 1)

Match(w, pat) == MatchFrom(pat, w, 1)

\* /^.../ : the match must start at the first word
MatchAnchored(w, pat) ==
  IF Len(w) = 0 THEN <<>>
  ELSE LET m == MatchVariants(pat, 1, w, 1) IN
       IF m # <<>> THEN << [input |-> w, groups |-> m[1]] >> ELSE <<>>
\* ------------------------------------------------------ pattern catalog
SwapPatterns == <<
  << <<L({"swap"}), N, W, L({"to", "for"}), W>> >>,
  << <<L({"convert"}), N, W, L({"to", "into"}), W>> >>,
  << <<L({"exchange"}), N, W, L({"to", "for"}), W>> >>,
  << <<L({"trade"}), N, W, L({"to", "for"}), W>> >>,
  << <<L({"change"}), N, W, L({"to", "into", "for"}), W>> >>,
  << <<N, W, L({"to", "into", "for"}), W>> >>,
  << <<L({"swap"}), L({"all", "everything"}), W, L({"to", "for"}), W>>,
     <<L({"swap"}), L({"all"}), L({"my"}), W, L({"to", "for"}), W>> >>,
  << <<L({"convert"}), L({"all", "everything"}), W, L({"to", "into"}), W>>,
     <<L({"convert"}), L({"all"}), L({"my"}), W, L({"to", "into"}), W>> >>,
  << <<L({"exchange"}), L({"all", "everything"}), W, L({"to", "for"}), W>>,
     <<L({"exchange"}), L({"all"}), L({"my"}), W, L({"to", "for"}), W>> >>,
  << <<L({"trade"}), L({"all", "everything"}), W, L({"to", "for"}), W>>,
     <<L({"trade"}), L({"all"}), L({"my"}), W, L({"to", "for"}), W>> >> >>

BalancePatterns == <<
  << <<L({"check", "show"}), L({"balance"})>>,
     <<L({"what's", "whats", "whatis"}), L({"my", "the"}), L({"balance"})>> >>,
  << <<L({"how"}), L({"much"}), OW, L({"do"}), L({"i"}), L({"have"})>>,
     <<L({"how"}), L({"much"}), OW, L({"is"}), L({"in"}), L({"my"}), L({"wallet"})>> >>,
  << <<L({"balance"}), L({"of", "for"}), L({"my"}), L({"wallet", "account"})>> >>,
  << <<L({"my"}), L({"balance"})>> >>,
  << <<L({"wallet"}), L({"balance"})>> >> >>

TokenInfoPatterns == <<
  << <<L({"tell", "what", "info", "information"}), L({"me", "about", "is"}),
       O({"the"}), O({"token"}), W>> >>,
  << <<L({"what"}), L({"is"}), W>> >>,
  << <<L({"explain"}), W>> >>,
  << <<W, L({"info", "information"})>> >>,
  << <<L({"info"}), L({"on"}), W>> >> >>

PricePatterns == <<
  << <<L({"price"}), L({"of"}), W>> >>,
  << <<L({"what's"}), L({"the"}), L({"price"}), L({"of"}), W>> >> >>

DatePrepositions == {"on", "from", "for", "during", "in"}

HistoryPatterns == <<
  << <<L({"show", "view", "get", "check"}), O({"my"}), L({"transaction", "tx"}), L({"history"})>> >>,
  << <<L({"what", "show"}), L({"are", "were"}), L({"my"}),
       L({"recent", "last", "previous"}), L({"transactions"})>> >>,
  << <<L({"my", "wallet"}), L({"transaction", "tx"}), L({"history"})>> >>,
  << <<L({"recent", "last", "previous"}), L({"transactions"})>> >>,
  << <<L({"what"}), L({"did", "have"}), L({"i"}), L({"do", "done", "transact"})>> >>,
  << <<L({"transactions"}), L(DatePrepositions), X>> >>,
  << <<L({"what"}), L({"happened", "occurred"}), L(DatePrepositions), X>>,
     <<L({"what"}), L({"took"}), L({"place"}), L(DatePrepositions), X>> >>,
  << <<L({"show"}), L({"me"}), L({"transactions", "activity"}), L(DatePrepositions), X>> >> >>

MarketTrendsPatterns == <<
  << <<L({"what's", "how's"}), O({"the"}), L({"market", "markets"})>>,
     <<L({"what", "how"}), L({"is", "are"}), O({"the"}), L({"market", "markets"})>> >>,
  << <<L({"market"}), L({"trend", "trends", "overview", "update", "sentiment"})>> >>,
  << <<L({"what", "which"}), L({"token", "tokens", "coin", "coins"}), O({"are", "is"}),
       L({"trending", "hot", "popular"})>> >>,
  << <<L({"what"}), L({"should"}), L({"i"}), L({"buy", "invest", "trade"})>> >>,
  << <<L({"crypto", "token", "coin"}), L({"recommendations"})>> >> >>

HelpPatterns == <<
  << <<L({"help", "assist", "guide", "tutorial"})>>,
     <<L({"how"}), L({"to"}), L({"use"})>> >>,
  << <<L({"what"}), L({"can"}), L({"you"}), L({"do"})>> >>,
  << <<L({"list", "show"}), L({"commands", "features", "abilities"})>> >>,
  << <<L({"help"}), L({"me"})>> >> >>

TransferPatterns == <<
  << <<L(TransferVerbs), N, T>> >>,
  << <<L(TransferVerbs), N, T>> >> >>

CryptoKnowledgePatterns == <<
  << <<L({"explain"}), R, L({"work", "mean", "function"})>>,
     <<L({"what"}), L({"is"}), R, L({"work", "mean", "function"})>>,
     <<L({"tell"}), L({"me"}), L({"about"}), R, L({"work", "mean", "function"})>>,
     <<L({"how"}), L({"does"}), R, L({"work", "mean", "function"})>> >>,
  << <<L({"explain"}), R>>,
     <<L({"what"}), L({"is"}), R>>,
     <<L({"tell"}), L({"me"}), L({"about"}), R>> >>,
  << <<L({"how"}), L({"does", "do"}), R, L({"work", "function"})>> >>,
  << <<L({"what", "why", "when", "how"}), L({"are", "is", "should", "do", "does"}), R>> >> >>

MarketAnalysisPatterns == <<
  << <<L({"market", "price"}), L({"analysis", "outlook", "prediction", "forecast", "trend"})>> >>,
  << <<L({"what's", "how's"}), O({"the"}), L({"market", "prices"})>>,
     <<L({"what", "how"}), L({"is", "are"}), O({"the"}), L({"market", "prices"})>> >>,
  << <<L({"bull", "bear"}), L({"market", "cycle", "phase"})>> >>,
  << <<L({"crypto", "market"}), L({"sentiment", "feeling", "outlook"})>> >> >>

InvestmentEducationPatterns == <<
  << <<L({"how", "what"}), L({"to"}), L({"invest", "investing"})>>,
     <<L({"how", "what"}), L({"should"}), L({"i"}), L({"invest", "investing"})>> >>,
  << <<L({"investment", "investing"}), L({"strategy", "strategies", "advice", "tips"})>> >>,
  << <<L({"portfolio", "risk"}), L({"management", "allocation", "diversification"})>> >>,
  << <<L({"teach", "explain", "educate"}), L({"me", "about"}), L({"investing", "investment"})>> >> >>

\* Object.entries(OPERATIONS): the operations in declaration order
OPERATIONS == <<
  [name |-> "swap", patterns |-> SwapPatterns],
  [name |-> "balance", patterns |-> BalancePatterns],
  [name |-> "tokenInfo", patterns |-> TokenInfoPatterns],
  [name |-> "price", patterns |-> PricePatterns],
  [name |-> "history", patterns |-> HistoryPatterns],
  [name |-> "marketTrends", patterns |-> MarketTrendsPatterns],
  [name |-> "help", patterns |-> HelpPatterns],
  [name |-> "transfer", patterns |-> TransferPatterns],
  [name |-> "cryptoKnowledge", patterns |-> CryptoKnowledgePatterns],
  [name |-> "marketAnalysis", patterns |-> MarketAnalysisPatterns],
  [name |-> "investmentEducation", patterns |-> InvestmentEducationPatterns] >>

\* The transfer fast path pattern, anchored at the start of the prompt
FastTransferPattern == << <<L(TransferVerbs), N, T>> >>
\* ------------------------------------------------------ collaborators
Base58Chars == {"1", "2", "3", "4", "5", "6", "7", "8", "9",
  "A", "B", "C", "D", "E", "F", "G", "H", "J", "K", "L", "M", "N", "P", "Q",
  "R", "S", "T", "U", "V", "W", "X", "Y", "Z",
  "a", "b", "c", "d", "e", "f", "g", "h", "i", "j", "k", "m", "n", "o", "p",
  "q", "r", "s", "t", "u", "v", "w", "x", "y", "z"}

\* isValidSolanaAddress: a Base58 string of 32 to 44 characters
IsValidSolanaAddress(w) ==
  /\ Len(w) >= 32
  /\ Len(w) <= 44
  /\ \A i \in 1..Len(w) : SubSeq(w, i, i) \in Base58Chars

\* isValidSolanaAddress tabulated over the vocabulary and its lower-cased forms
ValidAddressOf ==
  [w \in Vocabulary \cup {LowerOf[v] : v \in Vocabulary} |-> IsValidSolanaAddress(w)]

\* detectSolanaAddress(text): the first Solana-format address in the text,
\* "" (null) when there is none
RECURSIVE DetectFrom(_, _)
DetectFrom(w, i) ==
  IF i > Len(w) THEN ""
  ELSE IF (IF w[i] \in DOMAIN ValidAddressOf THEN ValidAddressOf[w[i]]
           ELSE IsValidSolanaAddress(w[i]))
       THEN w[i] ELSE DetectFrom(w, i + 1)

DetectSolanaAddress(text) == DetectFrom(text, 1)

\* ------------------------------------------------------ responses
NullIntent == [action |-> "null"]
NoIntent == [action |-> "undefined"]
NoSuggestions == <<>>

Msg(kind) == [kind |-> kind, tip |-> ""]
Ret(message, intent, suggestions) ==
  [threw |-> FALSE, message |-> message, intent |-> intent, suggestions |-> suggestions]
Threw == [threw |-> TRUE, message |-> Msg("exception"), intent |-> NoIntent,
          suggestions |-> NoSuggestions]

\* address.slice(0, 4) + "..." + address.slice(-4)
SliceFirst4(a) == IF Len(a) <= 4 THEN a ELSE SubSeq(a, 1, 4)
\* mutant: slice(4) instead of slice(-4)
SliceFrom4(a) == IF Len(a) <= 4 THEN "" ELSE SubSeq(a, 5, Len(a))
SliceLast4(a) == IF Len(a) <= 4 THEN a ELSE SubSeq(a, Len(a) - 3, Len(a))
Truncated(a) == SliceFirst4(a) \o "..." \o SliceLast4(a)

\* Number.prototype.toFixed(4) of a micro-SOL amount, as the micro-SOL value
\* of the printed decimal: the nearest multiple of 100; at the midpoint the
\* binary value of the double decides, so either neighbour is possible.
ToFixed4(x) ==
  LET lo == (x \div 100) * 100
      r == x % 100
  IN IF r < 50 THEN {lo} ELSE IF r > 50 THEN {lo + 100} ELSE {lo, lo + 100}

Max(a, b) == IF a >= b THEN a ELSE b

SendSuggestion(v) == "Send " \o ToString(v) \o " SOL"

\* ------------------------------------------------------ transfer handler
\* mutant: the missing-recipient check is dropped
MissingRecipientNever(recipient) == FALSE

\* if (!recipient)
MissingRecipient(recipient) == recipient = ""

\* if (isNaN(numericAmount) || numericAmount <= 0)
InvalidAmount(numericAmount) == numericAmount = NaN \/ numericAmount <= 0

\* mutant: the amount-alone check compares against balance + fee
InsufficientBalanceAfterFee(numericAmount, ctx) ==
  numericAmount > ctx.balance + TransactionFee

\* if (numericAmount > context.balance)
InsufficientBalance(numericAmount, ctx) == numericAmount > ctx.balance

\* mutant: the fee is left out of the required amount
InsufficientForFeesIgnoringFee(numericAmount, ctx) == numericAmount > ctx.balance

\* if (requiredAmount > context.balance), requiredAmount = numericAmount + fee
InsufficientForFees(numericAmount, ctx) == numericAmount + TransactionFee > ctx.balance

\* if (context.balance < transactionFee)
CannotCoverFee(ctx) == ctx.balance < TransactionFee

\* Math.max(0, context.balance - transactionFee).toFixed(4)
SuggestedAmounts(ctx) == ToFixed4(Max(0, ctx.balance - TransactionFee))

\* mutant: the recipient is looked for before the wallet connection is checked
TransferChecksAddressFirst(ctx, recipient, numericAmount, token) ==
  IF MissingRecipient(recipient) THEN "address"
  ELSE IF ~ctx.walletConnected THEN "wallet"
  ELSE IF InvalidAmount(numericAmount) THEN "amount"
  ELSE IF token = "SOL"
       THEN IF InsufficientBalance(numericAmount, ctx) THEN "balance"
            ELSE IF InsufficientForFees(numericAmount, ctx) THEN "fees"
            ELSE "ok"
       ELSE IF CannotCoverFee(ctx) THEN "fee_balance" ELSE "ok"

\* The checks of the handler in the order the code runs them: the name of
\* the first one that fails, "ok" when all pass
TransferChecks(ctx, recipient, numericAmount, token) ==
  IF ~ctx.walletConnected THEN "wallet"
  ELSE IF MissingRecipient(recipient) THEN "address"
  ELSE IF InvalidAmount(numericAmount) THEN "amount"
  ELSE IF token = "SOL"
       THEN IF InsufficientBalance(numericAmount, ctx) THEN "balance"
            ELSE IF InsufficientForFees(numericAmount, ctx) THEN "fees"
            ELSE "ok"
       ELSE IF CannotCoverFee(ctx) THEN "fee_balance" ELSE "ok"

\* OPERATIONS.transfer.handler(match, context): the set of responses it can
\* return (one, or two at a rounding midpoint of the suggested amount)
TransferHandler(match, ctx) ==
  LET fullMessage == IF ctx.originalPrompt # <<>> THEN ctx.originalPrompt ELSE match.input
      amount == match.groups[1]
      token == ToUpperCase(match.groups[2])
      recipient == DetectSolanaAddress(fullMessage)
      numericAmount == ParseFloat(amount)
      failed == TransferChecks(ctx, recipient, numericAmount, token)
  IN CASE failed = "wallet" ->
            {Ret(Msg("connect_wallet_transfer"), NullIntent,
                 <<"How do I connect my wallet?", "What is a wallet?">>)}
       [] failed = "address" ->
            {Ret(Msg("no_valid_address"), NullIntent,
                 <<"What does a Solana address look like?",
                   "How do I copy a wallet address?">>)}
       [] failed = "amount" ->
            {Ret(Msg("invalid_amount"), NullIntent,
                 <<"Send 0.001 SOL", "How much SOL should I transfer?">>)}
       [] failed = "balance" ->
            {Ret([kind |-> "insufficient_balance", tip |-> "", amount |-> numericAmount],
                 NullIntent, <<"Check my balance", "How do I get more SOL?">>)}
       [] failed = "fees" ->
            {Ret([kind |-> "insufficient_for_fees", tip |-> "",
                  required |-> numericAmount + TransactionFee],
                 NullIntent, <<SendSuggestion(v), "Check my balance">>) :
               v \in SuggestedAmounts(ctx)}
       [] failed = "fee_balance" ->
            {Ret(Msg("insufficient_fee_balance"), NullIntent,
                 <<"Check my balance", "How do I get more SOL?">>)}
       [] OTHER ->
            {Ret([kind |-> "confirm_transfer", tip |-> "", amount |-> numericAmount,
                  token |-> token, recipient |-> Truncated(recipient)],
                 [action |-> "transfer", recipient |-> recipient,
                  amount |-> numericAmount, token |-> token],
                 <<"Confirm", "Cancel", "Check my balance">>)}

\* ------------------------------------------------------ token registry
TOKEN_INFO ==
  [t \in {"SOL", "USDC", "USDT", "BONK", "JUP", "JTO", "RAY", "PYTH", "MEME", "WIF", "AKT"} |->
     CASE t = "SOL" -> [category |-> "L1 blockchain", year_launched |-> 2020]
       [] t = "USDC" -> [category |-> "Stablecoin", year_launched |-> 2018]
       [] t = "USDT" -> [category |-> "Stablecoin", year_launched |-> 2014]
       [] t = "BONK" -> [category |-> "Meme coin", year_launched |-> 2022]
       [] t = "JUP" -> [category |-> "DEX token", year_launched |-> 2024]
       [] t = "JTO" -> [category |-> "Infrastructure token", year_launched |-> 2023]
       [] t = "RAY" -> [category |-> "DEX token", year_launched |-> 2021]
       [] t = "PYTH" -> [category |-> "Oracle token", year_launched |-> 2023]
       [] t = "MEME" -> [category |-> "Meme coin", year_launched |-> 2023]
       [] t = "WIF" -> [category |-> "Meme coin", year_launched |-> 2023]
       [] t = "AKT" -> [category |-> "Infrastructure", year_launched |-> 2020]]

\* ------------------------------------------------------ other handlers
SwapHandler(match, ctx) ==
  {Ret(Msg("swap_initiated"),
       [action |-> "swap", token |-> match.groups[2], price |-> ParseFloat(match.groups[1])],
       NoSuggestions)}

\* ------------------------------------------------------ price cache
NoPrice == 0
NoLookup == [symbol |-> "", fetched |-> FALSE, at |-> 0, price |-> NoPrice,
             feed |-> [status |-> "throws", price |-> NoPrice],
             before |-> <<>>, cache |-> <<>>]

\* the answers of fetchTokenPrice: it throws, it yields no price, or a price
PriceFeeds ==
  {[status |-> "throws", price |-> NoPrice]} \cup
  {[status |-> "ok", price |-> v] : v \in {NoPrice, 1, 2}}

\* cachedTokenPrices[tokenSymbol] = entry
Put(cache, tokenSymbol, entry) ==
  [t \in DOMAIN cache \cup {tokenSymbol} |-> IF t = tokenSymbol THEN entry ELSE cache[t]]

\* mutant: an entry of exactly 60 seconds still counts as fresh
IsCacheValidInclusive(cache, tokenSymbol, t) ==
  /\ tokenSymbol \in DOMAIN cache
  /\ t - cache[tokenSymbol].timestamp <= CacheValidity

\* cachedTokenPrices[sym] && (now - cachedTokenPrices[sym].timestamp < 60000)
IsCacheValid(cache, tokenSymbol, t) ==
  /\ tokenSymbol \in DOMAIN cache
  /\ t - cache[tokenSymbol].timestamp < CacheValidity

\* mutant: when the fetch gives nothing the entry of the cache is used
FetchedPriceOrStale(cache, tokenSymbol, feed) ==
  IF feed.status = "ok" /\ feed.price # NoPrice THEN feed.price
  ELSE IF tokenSymbol \in DOMAIN cache THEN cache[tokenSymbol].price
  ELSE NoPrice

\* the value of the price variable after the fetch: the price fetched,
\* nothing when the fetch threw (the catch block only logs)
FetchedPrice(cache, tokenSymbol, feed) ==
  IF feed.status = "ok" THEN feed.price ELSE NoPrice

\* the try block of the balance and tokenInfo handlers: the price shown
\* and the cache it leaves
PriceLookup(tokenSymbol) ==
  IF ~IsCacheValid(cachedTokenPrices, tokenSymbol, now)
  THEN LET price == FetchedPrice(cachedTokenPrices, tokenSymbol, priceFeed) IN
       [symbol |-> tokenSymbol, fetched |-> TRUE, at |-> now, price |-> price,
        feed |-> priceFeed, before |-> cachedTokenPrices,
        cache |-> IF priceFeed.status = "ok" /\ priceFeed.price # NoPrice
                  THEN Put(cachedTokenPrices, tokenSymbol,
                           [price |-> priceFeed.price, timestamp |-> now])
                  ELSE cachedTokenPrices]
  ELSE [symbol |-> tokenSymbol, fetched |-> FALSE, at |-> now,
        price |-> cachedTokenPrices[tokenSymbol].price,
        feed |-> priceFeed, before |-> cachedTokenPrices, cache |-> cachedTokenPrices]

\* a handler's return together with what its price lookup did
Priced(r, priceLookup) == [lookup |-> priceLookup] @@ r
LookupOf(r) == IF "lookup" \in DOMAIN r THEN r.lookup ELSE NoLookup

BalanceHandler(match, ctx) ==
  IF ~ctx.walletConnected
  THEN {Ret(Msg("connect_wallet_balance"), NullIntent, NoSuggestions)}
  ELSE LET solPrice == PriceLookup("SOL") IN
       {Priced(Ret([kind |-> "balance", tip |-> "", priceInfo |-> solPrice.price],
                   [action |-> "balance", address |-> ctx.walletAddress],
                   NoSuggestions),
               solPrice)}

TokenInfoHandler(match, ctx) ==
  LET tokenSymbol == ToUpperCase(match.groups[1]) IN
  IF tokenSymbol \notin DOMAIN TOKEN_INFO
  THEN {Ret([kind |-> "unknown_token", tip |-> "", token |-> match.groups[1]],
            NullIntent, NoSuggestions)}
  ELSE LET tokenPrice == PriceLookup(tokenSymbol) IN
       {Priced(Ret([kind |-> "token_info", tip |-> "", token |-> tokenSymbol,
                    category |-> TOKEN_INFO[tokenSymbol].category,
                    year_launched |-> TOKEN_INFO[tokenSymbol].year_launched,
                    priceInfo |-> tokenPrice.price],
                   [action |-> "tokenInfo", token |-> tokenSymbol], NoSuggestions),
               tokenPrice)}

PriceHandler(match, ctx) ==
  {Ret(Msg("fetching_price"), [action |-> "price", token |-> match.groups[1]], NoSuggestions)}

\* the transaction history service finds transactions, finds none, or fails
HistoryHandler(match, ctx) ==
  IF ~ctx.walletConnected
  THEN {Ret(Msg("connect_wallet_history"), NullIntent, NoSuggestions)}
  ELSE {Ret(Msg("history_list"), [action |-> "history", success |-> TRUE], NoSuggestions),
        Ret(Msg("history_none"), [action |-> "history", success |-> FALSE], NoSuggestions),
        Ret(Msg("history_error"), [action |-> "history", success |-> FALSE], NoSuggestions)}

MarketTrendsHandler(match, ctx) ==
  {Ret([kind |-> "market_trends", tip |-> "", connected |-> ctx.walletConnected],
       [action |-> "marketTrends"], NoSuggestions)}

HelpHandler(match, ctx) ==
  {Ret([kind |-> "help", tip |-> "", connected |-> ctx.walletConnected],
       [action |-> "help"], NoSuggestions)}

\* match[1].toLowerCase() throws a TypeError when the pattern has no group
CryptoKnowledgeHandler(match, ctx) ==
  IF Len(match.groups) < 1 THEN {Threw}
  ELSE {Ret(Msg("crypto_knowledge"),
            [action |-> "crypto_knowledge", topic |-> ToLowerCase(match.groups[1])],
            NoSuggestions)}

MarketAnalysisHandler(match, ctx) ==
  {Ret(Msg("market_analysis_beginner"),
       [action |-> "marketAnalysis", expertiseLevel |-> "beginner"], NoSuggestions)}

InvestmentEducationHandler(match, ctx) ==
  IF Len(match.groups) < 1 THEN {Threw}
  ELSE {Ret(Msg("investment_education"),
            [action |-> "investment_education", topic |-> ToLowerCase(match.groups[1])],
            NoSuggestions)}

\* operation.handler(match, context)
Handler(opName, match, ctx) ==
  CASE opName = "swap" -> SwapHandler(match, ctx)
    [] opName = "balance" -> BalanceHandler(match, ctx)
    [] opName = "tokenInfo" -> TokenInfoHandler(match, ctx)
    [] opName = "price" -> PriceHandler(match, ctx)
    [] opName = "history" -> HistoryHandler(match, ctx)
    [] opName = "marketTrends" -> MarketTrendsHandler(match, ctx)
    [] opName = "help" -> HelpHandler(match, ctx)
    [] opName = "transfer" -> TransferHandler(match, ctx)
    [] opName = "cryptoKnowledge" -> CryptoKnowledgeHandler(match, ctx)
    [] opName = "marketAnalysis" -> MarketAnalysisHandler(match, ctx)
    [] opName = "investmentEducation" -> InvestmentEducationHandler(match, ctx)

\* ------------------------------------------------------ conversation memory
InitialConversationContext ==
  [recentTopics |-> <<>>, recentTokens |-> <<>>, favoriteTokens |-> <<>>,
   preferredActions |-> <<>>, interactionStyle |-> "neutral",
   suggestedNextActions |-> <<>>]

Includes(seq, x) == \E i \in 1..Len(seq) : seq[i] = x

\* mutant: nothing is evicted
UnshiftWithoutPop(seq, x, cap) == <<x>> \o seq

\* mutant: a full list keeps its elements and drops the newcomer
UnshiftKeepingOldest(seq, x, cap) == IF Len(seq) >= cap THEN seq ELSE <<x>> \o seq

\* array.unshift(x); if (array.length > cap) array.pop()
Unshift(seq, x, cap) ==
  LET longer == <<x>> \o seq IN
  IF Len(longer) > cap THEN SubSeq(longer, 1, Len(longer) - 1) ELSE longer

\* "liquidity pool" is left out: an input that includes it includes "liquidity"
TechnicalTerms == {"tvl", "liquidity", "amm", "slippage", "apy", "yield"}
CasualTerms == {"moon", "dump", "pump", "wen", "lambo", "fomo", "yolo"}

\* lowerInput.includes(term) for a term without a space: the term is a
\* substring of one of the words
WordIncludes(w, term) ==
  \E k \in 1..(Len(w) - Len(term) + 1) : SubSeq(w, k, k + Len(term) - 1) = term
\* mutant: a term counts only as a whole word
InputHasWord(lowerInput, term) == \E i \in 1..Len(lowerInput) : lowerInput[i] = term

InputIncludes(lowerInput, term) ==
  \E i \in 1..Len(lowerInput) : WordIncludes(lowerInput[i], term)

\* technicalTerms.some(...) and casualTerms.some(...) on the lower-cased input
StyleTerms(userInput) ==
  LET lowerInput == LowerPrompt(userInput) IN
  [hasTechnical |-> \E term \in TechnicalTerms : InputIncludes(lowerInput, term),
   hasCasual |-> \E term \in CasualTerms : InputIncludes(lowerInput, term)]
\* tabulated over the inputs of the model
StyleTermsOf ==
  [userInput \in AllPrompts \cup {call.userInput : call \in MemoryCalls} |->
     StyleTerms(userInput)]

\* generateSuggestions(): the list stored in suggestedNextActions
GenerateSuggestions(mem) ==
  LET topic == IF Len(mem.recentTopics) > 0 THEN mem.recentTopics[1] ELSE ""
      lastToken == IF Len(mem.recentTokens) > 0 THEN mem.recentTokens[1] ELSE ""
      favorite == IF Len(mem.favoriteTokens) > 0 THEN mem.favoriteTokens[1] ELSE "USDC"
      s1 == IF topic = "balance"
            THEN <<"Swap 1 SOL to USDC", "Show my transaction history">> ELSE <<>>
      s2 == IF topic = "tokenInfo" /\ lastToken # ""
            THEN <<IF lastToken # "SOL" THEN "Swap 10 " \o lastToken \o " to SOL"
                   ELSE "Swap 1 SOL to " \o favorite,
                   "What are the market trends?">>
            ELSE <<>>
      s3 == IF topic = "marketTrends"
            THEN <<"Tell me about " \o (IF lastToken # "" THEN lastToken ELSE "JUP"),
                   "Check my balance">>
            ELSE <<>>
      s4 == IF topic = "history"
            THEN <<"Check my balance", "What are the market trends?">> ELSE <<>>
      s5 == IF topic = "swap"
            THEN <<"Check my balance", "Show my transaction history">> ELSE <<>>
      some == s1 \o s2 \o s3 \o s4 \o s5
      all == IF Len(some) = 0
             THEN <<"What tokens do you support?", "Check my balance",
                    "What are the market trends?">>
             ELSE some
  IN SubSeq(all, 1, IF Len(all) < MaxSuggestions THEN Len(all) ELSE MaxSuggestions)

RECURSIVE PushTokens(_, _, _)
PushTokens(mem, tokens, i) ==
  IF i > Len(tokens) THEN mem
  ELSE PushTokens(
         [mem EXCEPT
            !.recentTokens = Unshift(@, tokens[i], MaxRecentTokens),
            !.favoriteTokens = IF Includes(@, tokens[i]) THEN @
                               ELSE Unshift(@, tokens[i], MaxFavoriteTokens)],
         tokens, i + 1)

\* updateConversationContext(userInput, matchedOperation, tokensMentioned);
\* matchedOperation = "" is null
UpdateConversationContext(mem, userInput, matchedOperation, tokensMentioned) ==
  LET m1 == IF matchedOperation = "" THEN mem
            ELSE [mem EXCEPT
                    !.recentTopics = Unshift(@, matchedOperation, MaxRecentTopics),
                    !.preferredActions = IF Includes(@, matchedOperation) THEN @
                                         ELSE Unshift(@, matchedOperation, MaxPreferredActions)]
      m2 == PushTokens(m1, tokensMentioned, 1)
      terms == IF userInput \in DOMAIN StyleTermsOf THEN StyleTermsOf[userInput]
               ELSE StyleTerms(userInput)
      hasTechnical == terms.hasTechnical
      hasCasual == terms.hasCasual
      m3 == IF hasTechnical /\ ~hasCasual THEN [m2 EXCEPT !.interactionStyle = "technical"]
            ELSE IF hasCasual /\ ~hasTechnical THEN [m2 EXCEPT !.interactionStyle = "casual"]
            ELSE m2
  IN [m3 EXCEPT !.suggestedNextActions = GenerateSuggestions(m3)]
\* mutant: the low-balance tip is looked at first
TipForLowBalanceFirst(ctx, mem, draws) ==
  LET topics == mem.recentTopics
      c1 == Includes(topics, "balance") /\ ~Includes(topics, "swap")
      c3 == ctx.walletConnected /\ ctx.balance < LowBalanceThreshold
      c5 == ctx.walletConnected /\ Len(topics) > 2 /\ ~Includes(topics, "history")
      Drawn(c, i) == IF ~c THEN "skip" ELSE IF draws[i] THEN "pass" ELSE "fail"
      e1 == Drawn(c1, 1)
      e5 == Drawn(c5, 4)
  IN IF c3
     THEN [tip |-> "Tip: Your SOL balance is low. You'll need SOL to pay for transaction fees when swapping tokens.",
           gates |-> <<e1, "skip", "skip", "skip">>]
     ELSE IF e1 = "pass"
     THEN [tip |-> "Tip: You can swap your SOL for other tokens by typing 'Swap 1 SOL to USDC'.",
           gates |-> <<e1, "skip", "skip", "skip">>]
     ELSE IF e5 = "pass"
     THEN [tip |-> "Tip: You can view your recent transactions by asking 'Show my transaction history'.",
           gates |-> <<e1, "skip", "skip", e5>>]
     ELSE [tip |-> "", gates |-> <<e1, "skip", "skip", e5>>]

\* getPersonalizedTips(context) for given outcomes of its Math.random()
\* gates (draws[i] is "the i-th gated candidate's draw exceeds its
\* threshold"); "" is null.  gates tells, for the candidates guarded by
\* Math.random() in declared order, whether the draw was made and passed:
\* && evaluates the draw only when the context condition before it holds,
\* and nothing is evaluated after a return.
TipFor(ctx, mem, draws) ==
  LET topics == mem.recentTopics
      favoriteToken == IF Len(mem.favoriteTokens) > 0 THEN mem.favoriteTokens[1]
                       ELSE IF Len(mem.recentTokens) > 0 THEN mem.recentTokens[1] ELSE ""
      c1 == Includes(topics, "balance") /\ ~Includes(topics, "swap")
      c2 == Includes(topics, "swap") /\ ~Includes(topics, "tokenInfo")
      c3 == ctx.walletConnected /\ ctx.balance < LowBalanceThreshold
      c4 == ~Includes(topics, "marketTrends") /\ Len(mem.recentTokens) > 0
      c5 == ctx.walletConnected /\ Len(topics) > 2 /\ ~Includes(topics, "history")
      Drawn(c, i) == IF ~c THEN "skip" ELSE IF draws[i] THEN "pass" ELSE "fail"
      e1 == Drawn(c1, 1)
      e2 == Drawn(c2, 2)
      e4 == Drawn(c4, 3)
      e5 == Drawn(c5, 4)
  IN IF e1 = "pass"
     THEN [tip |-> "Tip: You can swap your SOL for other tokens by typing 'Swap 1 SOL to USDC'.",
           gates |-> <<e1, "skip", "skip", "skip">>]
     ELSE IF e2 = "pass" /\ favoriteToken # ""
     THEN [tip |-> "Tip: You can learn more about " \o favoriteToken
                     \o " by asking \"Tell me about " \o favoriteToken \o "\".",
           gates |-> <<e1, e2, "skip", "skip">>]
     ELSE IF c3
     THEN [tip |-> "Tip: Your SOL balance is low. You'll need SOL to pay for transaction fees when swapping tokens.",
           gates |-> <<e1, e2, "skip", "skip">>]
     ELSE IF e4 = "pass"
     THEN [tip |-> "Tip: Ask 'What are the market trends?' to get insights on current token performance.",
           gates |-> <<e1, e2, e4, "skip">>]
     ELSE IF e5 = "pass"
     THEN [tip |-> "Tip: You can view your recent transactions by asking 'Show my transaction history'.",
           gates |-> <<e1, e2, e4, e5>>]
     ELSE [tip |-> "", gates |-> <<e1, e2, e4, e5>>]

\* getPersonalizedTips(context): every (tip, gates) it can return
GetPersonalizedTips(ctx, mem) ==
  {TipFor(ctx, mem, draws) : draws \in [1..4 -> BOOLEAN]}

\* ------------------------------------------------------ general chat
CONVERSATION_PATTERNS == <<
  [type |-> "greeting", anchored |-> TRUE, pool |-> 3, patterns |-> <<
     << <<L({"hi", "hello", "hey", "howdy", "greetings"})>>,
        <<L({"good"}), L({"morning", "afternoon", "evening"})>>,
        <<L({"what's", "whats"}), L({"up"})>> >> >>],
  [type |-> "farewell", anchored |-> TRUE, pool |-> 1, patterns |-> <<
     << <<L({"bye", "goodbye", "farewell", "later"})>>,
        <<L({"see"}), L({"you"})>>,
        <<L({"have"}), L({"a"}), L({"good", "nice", "great"}), L({"day", "night", "evening"})>> >> >>],
  [type |-> "thanks", anchored |-> TRUE, pool |-> 3, patterns |-> <<
     << <<L({"thanks", "thx", "ty"})>>,
        <<L({"thank"}), L({"you"})>>,
        <<L({"appreciate"}), L({"it", "you"})>> >> >>],
  [type |-> "identity", anchored |-> FALSE, pool |-> 2, patterns |-> <<
     << <<L({"who", "what"}), L({"are"}), L({"you"})>> >>,
     << <<L({"tell"}), O({"me"}), L({"about"}), L({"yourself"})>> >> >>],
  [type |-> "capabilities", anchored |-> FALSE, pool |-> 1, patterns |-> <<
     << <<L({"what"}), L({"can"}), L({"you"}), L({"do"})>> >>,
     << <<L({"help"}), L({"me"}), L({"with"})>> >>,
     << <<L({"how"}), L({"does"}), L({"this"}), L({"work"})>>,
        <<L({"how"}), L({"does"}), L({"this"}), L({"app"}), L({"work"})>> >> >>],
  [type |-> "joke", anchored |-> FALSE, pool |-> 5, patterns |-> <<
     << <<L({"tell"}), O({"me"}), L({"a"}), L({"joke"})>>,
        <<L({"tell"}), O({"me"}), L({"a"}), L({"crypto"}), L({"joke"})>> >> >>] >>

RECURSIVE AnyPatternMatches(_, _, _, _)
AnyPatternMatches(p, patterns, anchored, j) ==
  IF j > Len(patterns) THEN FALSE
  ELSE IF (IF anchored THEN MatchAnchored(p, patterns[j]) ELSE Match(p, patterns[j])) # <<>>
       THEN TRUE
       ELSE AnyPatternMatches(p, patterns, anchored, j + 1)

\* handleGeneralChat(prompt): the messages it can return (the reply is drawn
\* from the pool of the first category with a matching pattern)
RECURSIVE ChatFrom(_, _)
ChatFrom(p, k) ==
  IF k > Len(CONVERSATION_PATTERNS)
  THEN {[kind |-> "generic_redirect", tip |-> "", pick |-> 1]}
  ELSE LET cat == CONVERSATION_PATTERNS[k] IN
       IF AnyPatternMatches(p, cat.patterns, cat.anchored, 1)
       THEN {[kind |-> cat.type, tip |-> "", pick |-> n] : n \in 1..cat.pool}
       ELSE ChatFrom(p, k + 1)

\* tabulated over the prompts of the model
ChatOf == [p \in AllPrompts |-> ChatFrom(p, 1)]
HandleGeneralChat(p) == IF p \in AllPrompts THEN ChatOf[p] ELSE ChatFrom(p, 1)

\* ------------------------------------------------------ intent router
\* for (opName, operation) of OPERATIONS, for pattern of operation.patterns:
\* the first (operation, pattern) whose pattern matches; <<>> when none does
RECURSIVE FirstPattern(_, _, _)
FirstPattern(p, patterns, j) ==
  IF j > Len(patterns) THEN <<>>
  ELSE LET m == Match(p, patterns[j]) IN
       IF m # <<>> THEN << [pattern |-> j, match |-> m[1]] >>
       ELSE FirstPattern(p, patterns, j + 1)

\* mutant: the walk prefers the last operation that matches
RECURSIVE LastOperation(_, _)
LastOperation(p, k) ==
  IF k > Len(OPERATIONS) THEN <<>>
  ELSE LET later == LastOperation(p, k + 1)
           f == FirstPattern(p, OPERATIONS[k].patterns, 1)
       IN IF later # <<>> THEN later
          ELSE IF f # <<>>
               THEN << [op |-> OPERATIONS[k].name, pattern |-> f[1].pattern,
                        match |-> f[1].match] >>
               ELSE <<>>

RECURSIVE FirstOperation(_, _)
FirstOperation(p, k) ==
  IF k > Len(OPERATIONS) THEN <<>>
  ELSE LET f == FirstPattern(p, OPERATIONS[k].patterns, 1) IN
       IF f # <<>>
       THEN << [op |-> OPERATIONS[k].name, pattern |-> f[1].pattern, match |-> f[1].match] >>
       ELSE FirstOperation(p, k + 1)

\* the catalog walk, tabulated over the prompts of the model
CatalogOf == [p \in AllPrompts |-> FirstOperation(p, 1)]
CatalogWalk(p) == IF p \in AllPrompts THEN CatalogOf[p] ELSE FirstOperation(p, 1)

\* lowerPrompt.startsWith(verb)
StartsWith(text, verb) ==
  /\ Len(text) > 0
  /\ Len(text[1]) >= Len(verb)
  /\ SubSeq(text[1], 1, Len(verb)) = verb

\* mutant: the fast path forgets the verb "send"
StartsWithOtherTransferVerb(text) ==
  \E v \in TransferVerbs \ {"send"} : StartsWith(text, v)

StartsWithTransferVerb(text) == \E v \in TransferVerbs : StartsWith(text, v)

\* mutant: the fallback carries no suggestions
ErrorFallbackWithoutSuggestions ==
  [message |-> Msg("router_error"), intent |-> NullIntent, suggestions |-> NoSuggestions]

ErrorFallback ==
  [message |-> Msg("router_error"), intent |-> NullIntent,
   suggestions |-> <<"Check my balance", "What can you help me with?">>]

Idle == [path |-> "idle", op |-> "", pattern |-> 0, groups |-> <<>>, threw |-> FALSE,
         gates |-> <<>>]
NoResult == [message |-> Msg("none"), intent |-> NoIntent, suggestions |-> NoSuggestions]
NoContext == [walletConnected |-> FALSE, walletAddress |-> "", balance |-> 0,
              tokenBalances |-> [USDC |-> 0]]

Response(r) == [message |-> r.message, intent |-> r.intent, suggestions |-> r.suggestions]

\* mutant: the fast path records the transfer in the memory as well
FastPathOutcomesUpdatingMemory(p, ctx, mem, transferMatch) ==
  {[result |-> IF r.threw THEN ErrorFallback ELSE Response(r),
    mem |-> UpdateConversationContext(mem, p, "transfer", <<>>),
    invoked |-> [path |-> "fast", op |-> "transfer", pattern |-> 0,
                 groups |-> transferMatch.groups, threw |-> r.threw,
                 gates |-> <<>>]] :
     r \in TransferHandler(transferMatch, [originalPrompt |-> p] @@ ctx)}

\* mutant: the enhanced context carries the lower-cased prompt
FastPathOutcomesLowerCased(p, ctx, mem, transferMatch) ==
  {[result |-> IF r.threw THEN ErrorFallback ELSE Response(r),
    mem |-> mem,
    invoked |-> [path |-> "fast", op |-> "transfer", pattern |-> 0,
                 groups |-> transferMatch.groups, threw |-> r.threw,
                 gates |-> <<>>]] :
     r \in TransferHandler(transferMatch, [originalPrompt |-> LowerPrompt(p)] @@ ctx)}

\* the fast path: the transfer handler called with the match on the
\* lower-cased prompt and the enhanced context
FastPathOutcomes(p, ctx, mem, transferMatch) ==
  {[result |-> IF r.threw THEN ErrorFallback ELSE Response(r),
    mem |-> mem,
    invoked |-> [path |-> "fast", op |-> "transfer", pattern |-> 0,
                 groups |-> transferMatch.groups, threw |-> r.threw,
                 gates |-> <<>>]] :
     r \in TransferHandler(transferMatch, [originalPrompt |-> p] @@ ctx)}

\* mutant: the suggestions of the handler are kept when it returns some
GeneralPathOutcomesKeepingSuggestions(p, ctx, mem, found) ==
  LET mem1 == UpdateConversationContext(mem, p, found.op, <<>>)
      inv == [path |-> "general", op |-> found.op, pattern |-> found.pattern,
              groups |-> found.match.groups, threw |-> FALSE, gates |-> <<>>]
  IN UNION {
       IF r.threw
       THEN {[result |-> ErrorFallback, mem |-> mem1,
              invoked |-> [inv EXCEPT !.threw = TRUE]]}
       ELSE {[result |-> [message |-> [r.message EXCEPT !.tip = t.tip],
                          intent |-> r.intent,
                          suggestions |-> IF r.suggestions # NoSuggestions
                                          THEN r.suggestions
                                          ELSE mem1.suggestedNextActions],
              mem |-> mem1, invoked |-> [inv EXCEPT !.gates = t.gates],
              lookup |-> LookupOf(r)] :
               t \in GetPersonalizedTips(ctx, mem1)} :
       r \in Handler(found.op, found.match, [originalPrompt |-> <<>>] @@ ctx)}

\* the general path: memory update, handler with the plain context, tip,
\* suggestions replaced by those of the memory
GeneralPathOutcomes(p, ctx, mem, found) ==
  LET mem1 == UpdateConversationContext(mem, p, found.op, <<>>)
      inv == [path |-> "general", op |-> found.op, pattern |-> found.pattern,
              groups |-> found.match.groups, threw |-> FALSE, gates |-> <<>>]
  IN UNION {
       IF r.threw
       THEN {[result |-> ErrorFallback, mem |-> mem1,
              invoked |-> [inv EXCEPT !.threw = TRUE]]}
       ELSE {[result |-> [message |-> [r.message EXCEPT !.tip = t.tip],
                          intent |-> r.intent,
                          suggestions |-> mem1.suggestedNextActions],
              mem |-> mem1, invoked |-> [inv EXCEPT !.gates = t.gates],
              lookup |-> LookupOf(r)] :
               t \in GetPersonalizedTips(ctx, mem1)} :
       r \in Handler(found.op, found.match, [originalPrompt |-> <<>>] @@ ctx)}

\* mutant: the general-chat matcher is consulted before the address detector
FallbackOutcomesChatFirst(p, ctx, mem) ==
  LET address == DetectSolanaAddress(p)
      chat == HandleGeneralChat(p)
  IN
  IF address # "" /\ \A m \in chat : m.kind = "generic_redirect"
  THEN {[result |-> [message |-> [kind |-> "address_detected", tip |-> "",
                                   recipient |-> Truncated(address)],
                     intent |-> NullIntent,
                     suggestions |-> <<"Send 0.1 SOL to this address",
                                       "Send 5 USDC to this address",
                                       "What is this wallet?">>],
         mem |-> mem,
         invoked |-> [Idle EXCEPT !.path = "address"]]}
  ELSE {[result |-> [message |-> m, intent |-> NoIntent, suggestions |-> NoSuggestions],
         mem |-> mem,
         invoked |-> [Idle EXCEPT !.path = "chat"]] : m \in chat}

\* no pattern matched: a bare wallet address, else general chat
FallbackOutcomes(p, ctx, mem) ==
  LET address == DetectSolanaAddress(p) IN
  IF address # ""
  THEN {[result |-> [message |-> [kind |-> "address_detected", tip |-> "",
                                   recipient |-> Truncated(address)],
                     intent |-> NullIntent,
                     suggestions |-> <<"Send 0.1 SOL to this address",
                                       "Send 5 USDC to this address",
                                       "What is this wallet?">>],
         mem |-> mem,
         invoked |-> [Idle EXCEPT !.path = "address"]]}
  ELSE {[result |-> [message |-> m, intent |-> NoIntent, suggestions |-> NoSuggestions],
         mem |-> mem,
         invoked |-> [Idle EXCEPT !.path = "chat"]] : m \in HandleGeneralChat(p)}

\* parseUserIntent(prompt, context): every (response, memory) it can end in
ParseOutcomes(p, ctx, mem) ==
  LET lowerPrompt == LowerPrompt(p)
      transferMatch == IF StartsWithTransferVerb(lowerPrompt)
                       THEN MatchAnchored(lowerPrompt, FastTransferPattern) ELSE <<>>
  IN IF transferMatch # <<>>
     THEN FastPathOutcomes(p, ctx, mem, transferMatch[1])
     ELSE LET found == CatalogWalk(p) IN
          IF found # <<>> THEN GeneralPathOutcomes(p, ctx, mem, found[1])
          ELSE FallbackOutcomes(p, ctx, mem)
\* ------------------------------------------------------ context manager
\* null and undefined are both written ""
Null == ""

InitialUserProfile == [expertiseLevel |-> "beginner", walletAddress |-> Null]

\* initializeWithWalletAddress / setWalletAddress: the profile field is
\* address || undefined
WithWalletAddress(profile, address) == [profile EXCEPT !.walletAddress = address]

\* the ids a caller gives to createAISystem, and the strings
\* Math.random().toString(36).substring(7) can yield; one string is in both
SessionIds == {"session-1", "k3x9q"}
RandomIds == {"k3x9q", "7hz2m"}
InitialSessionId == "7hz2m"

\* the constructor of AIContextManager: it declares no parameter, so the
\* argument of new AIContextManager(sessionId) is dropped and the id is drawn
NewSessionIds(given) == RandomIds

\* getSessionId()
GetSessionId == sessionId

\* generateAIContext(): the session id, the message list and the profile
GenerateAIContext(msgs, profile) ==
  [sessionId |-> sessionId, messages |-> msgs, userProfile |-> profile]

\* hasExceededRetries()
HasExceededRetries(count) == count >= maxRetries

\* ------------------------------------------------- session orchestrator
\* the messages a session receives and the options of the caller
SessionMessages == {<<"hello">>, <<"Check", "my", "balance">>, <<"What", "is", "SOL">>}
SessionOptions ==
  [includeMarketData : BOOLEAN, includeTokenData : BOOLEAN, fullAnalysis : BOOLEAN]
WalletAddresses == {Null, OwnAddress}

\* the text filters return the text they are given, marked with the filter
Filtered(text, filter) == [text |-> text, by |-> filter]

\* handleSmallTalk(message): a canned reply, or null when the message is
\* not small talk; either answer is possible for a message
HandleSmallTalk(message) == {Null, "small_talk"}

casualSuggestions ==
  <<"Tell me about Bitcoin", "What are your thoughts on NFTs?",
    "How's the crypto market doing today?", "What's your favorite blockchain project?",
    "Tell me about DeFi", "What should I know about Solana?",
    "How do hardware wallets work?">>

\* generateCasualSuggestions(): the first 3 of the list sorted by a random
\* comparator, any 3 different entries in any order
GenerateCasualSuggestions ==
  {[n \in 1..3 |-> casualSuggestions[order[n]]] :
     order \in {o \in [1..3 -> 1..Len(casualSuggestions)] :
                  o[1] # o[2] /\ o[1] # o[3] /\ o[2] # o[3]}}

NoData == {}
IdleSession ==
  [path |-> "idle", message |-> <<>>, generated |-> FALSE, request |-> NoContext,
   failed |-> "", escaped |-> FALSE,
   response |-> [message |-> Filtered(Msg("none"), ""), intent |-> NoIntent,
                 suggestions |-> NoSuggestions, data |-> NoData]]

\* one way processMessage can run: the response, the fields it leaves behind
\* and what it called
Outcome(path, response, msgs, mem, generated, request, failed) ==
  [path |-> path, response |-> response, messages |-> msgs, mem |-> mem,
   generated |-> generated, request |-> request, failed |-> failed, escaped |-> FALSE]

\* mutant: the small-talk check runs after the message is recorded
SmallTalkOutcomesAfterHistory(message, msgs, mem) ==
  {Outcome("small_talk",
           [message |-> Filtered(Msg(reply), ""), intent |-> NoIntent,
            suggestions |-> suggestions, data |-> NoData],
           Append(msgs, [role |-> "user", content |-> message]), mem, FALSE,
           NoContext, "") :
     reply \in HandleSmallTalk(message) \ {Null},
     suggestions \in GenerateCasualSuggestions}

\* the small-talk return: the reply and three casual suggestions
SmallTalkOutcomes(message, msgs, mem) ==
  {Outcome("small_talk",
           [message |-> Filtered(Msg(reply), ""), intent |-> NoIntent,
            suggestions |-> suggestions, data |-> NoData],
           msgs, mem, FALSE, NoContext, "") :
     reply \in HandleSmallTalk(message) \ {Null},
     suggestions \in GenerateCasualSuggestions}

\* context.walletData || {walletConnected: false, walletAddress: null,
\* balance: 0, tokenBalances: []}
WalletDataOf(aiContext) ==
  IF "walletData" \in DOMAIN aiContext THEN aiContext.walletData
  ELSE [walletConnected |-> FALSE, walletAddress |-> Null, balance |-> 0,
        tokenBalances |-> [USDC |-> 0]]

\* the context handed to generateEnhancedResponse
RequestContext(aiContext, profile) ==
  LET walletData == WalletDataOf(aiContext) IN
  [walletConnected |-> walletData.walletAddress # Null,
   walletAddress |-> walletData.walletAddress,
   balance |-> walletData.balance,
   tokenBalances |-> walletData.tokenBalances,
   expertiseLevel |-> profile.expertiseLevel,
   sessionId |-> GetSessionId]

\* aiModel.generateEnhancedResponse(message, request): it fails, or it
\* answers with what the intent router resolves the message to
GenerateEnhancedResponse(message, request, mem) ==
  {[threw |-> TRUE, response |-> ErrorFallback, mem |-> mem, lookup |-> NoLookup]} \cup
  {[threw |-> FALSE, response |-> out.result, mem |-> out.mem,
    lookup |-> LookupOf(out)] :
     out \in ParseOutcomes(message, request, mem)}

\* humanizeResponse(text): the filtered text, or a failure
HumanizeResponse(text) ==
  {[threw |-> FALSE, text |-> Filtered(text, "humanizeResponse")],
   [threw |-> TRUE, text |-> Filtered(text, "")]}

\* extractTokensFromMessage(message): the registry symbols the lower-cased
\* message contains, in registry order
TokenSymbols == <<"SOL", "USDC", "USDT", "BONK", "JUP", "JTO", "RAY", "PYTH", "MEME", "WIF">>
ExtractTokensFromMessage(message) ==
  LET normalizedMessage == LowerPrompt(message) IN
  SelectSeq(TokenSymbols, LAMBDA t : InputIncludes(normalizedMessage, ToLowerCase(t)))
ExtractedTokens == [message \in SessionMessages |-> ExtractTokensFromMessage(message)]

\* result.data = {...result.data || {}, key: payload}
Merge(data, key, payload) == {e \in data : e[1] # key} \cup {<<key, payload>>}

Enriched(data) == [failed |-> "", data |-> data]
Failing(name) == [failed |-> name, data |-> NoData]

\* options.includeMarketData: the price trend of the first token
\* mentioned (none when the service has no trend), else the sentiment
MarketData(message, data) ==
  LET mentionedTokens == ExtractedTokens[message] IN
  {Failing("marketIntelligence")} \cup
  (IF Len(mentionedTokens) > 0
   THEN {Enriched(data),
         Enriched(Merge(data, "marketData", "priceTrend " \o mentionedTokens[1]))}
   ELSE {Enriched(Merge(data, "marketData", "sentiment"))})

\* options.includeTokenData: the registry entry of the first token mentioned
TokenData(message, data) ==
  LET mentionedTokens == ExtractedTokens[message] IN
  IF Len(mentionedTokens) > 0
  THEN {Failing("knowledgeService"), Enriched(data),
        Enriched(Merge(data, "tokenData", mentionedTokens[1]))}
  ELSE {Enriched(data)}

\* options.fullAnalysis: the comprehensive analysis
FullAnalysis(message, data) ==
  LET mentionedTokens == ExtractedTokens[message] IN
  {Failing("marketIntelligence"),
   Enriched(Merge(data, "analysis",
                  IF Len(mentionedTokens) > 0 THEN mentionedTokens[1] ELSE "market"))}

\* the three enrichments in the order of the code, each when requested
Enrichments(message, options) ==
  LET step1 == IF options.includeMarketData THEN MarketData(message, NoData)
               ELSE {Enriched(NoData)}
      step2 == UNION {IF a.failed # "" THEN {a}
                      ELSE IF options.includeTokenData THEN TokenData(message, a.data)
                      ELSE {a} : a \in step1}
  IN UNION {IF b.failed # "" THEN {b}
            ELSE IF options.fullAnalysis THEN FullAnalysis(message, b.data)
            ELSE {b} : b \in step2}

StartsWithText(text, prefix) ==
  Len(text) >= Len(prefix) /\ SubSeq(text, 1, Len(prefix)) = prefix

\* one suggestion at a random index gets the prefix, unless it starts with
\* "Check" or "Connect"
FormatSuggestions(suggestions) ==
  IF Len(suggestions) = 0 THEN {suggestions}
  ELSE {IF StartsWithText(suggestions[randomIndex], "Check")
           \/ StartsWithText(suggestions[randomIndex], "Connect")
        THEN suggestions
        ELSE [suggestions EXCEPT ![randomIndex] = "Want my advice? " \o @] :
          randomIndex \in 1..Len(suggestions)}

\* the response of the catch block
SessionFallback ==
  [message |-> Filtered(Msg("session_error"), "makeMoreHuman"), intent |-> NoIntent,
   suggestions |-> <<"Check my balance", "Tell me about Solana",
                     "What are current market trends?">>,
   data |-> NoData]

\* the try block after the small-talk check; an outcome with a failed
\* collaborator is one that threw
PipelineOutcomes(message, options, msgs, profile, mem) ==
  LET aiContext == GenerateAIContext(msgs, profile)
      msgs1 == Append(msgs, [role |-> "user", content |-> message])
      request == RequestContext(aiContext, profile)
      Thrown(name, ms, g) ==
        Priced(Outcome("pipeline", SessionFallback, ms, g.mem, TRUE, request, name),
               g.lookup)
  IN UNION {
       IF g.threw THEN {Thrown("aiModel", msgs1, g)}
       ELSE UNION {
         IF h.threw THEN {Thrown("humanizeResponse", msgs1, g)}
         ELSE LET msgs2 == Append(msgs1, [role |-> "assistant", content |-> h.text]) IN
              UNION {
                IF e.failed # "" THEN {Thrown(e.failed, msgs2, g)}
                ELSE {Priced(Outcome("pipeline",
                                     [message |-> h.text, intent |-> g.response.intent,
                                      suggestions |-> suggestions, data |-> e.data],
                                     msgs2, g.mem, TRUE, request, ""),
                             g.lookup) :
                        suggestions \in FormatSuggestions(g.response.suggestions)} :
                e \in Enrichments(message, options)} :
         h \in HumanizeResponse(g.response.message)} :
       g \in GenerateEnhancedResponse(message, request, mem)}

\* mutant: a failure of the humanizer is thrown on to the caller
CaughtUnlessHumanizer(o) ==
  IF o.failed = "humanizeResponse" THEN [o EXCEPT !.escaped = TRUE]
  ELSE IF o.failed # "" THEN [o EXCEPT !.path = "fallback", !.response = SessionFallback]
  ELSE o

\* the catch block: whatever was thrown, the fallback is returned
Caught(o) ==
  IF o.failed # "" THEN [o EXCEPT !.path = "fallback", !.response = SessionFallback]
  ELSE o

\* processMessage(message, options): every way it can end
ProcessOutcomes(message, options, msgs, profile, mem) ==
  {Caught(o) : o \in SmallTalkOutcomes(message, msgs, mem)} \cup
  (IF Null \in HandleSmallTalk(message)
   THEN {Caught(o) : o \in PipelineOutcomes(message, options, msgs, profile, mem)}
   ELSE {})

\* ------------------------------------------------- market-trends hook
\* useState([]), useState(true), useState(null); phase tells whether the
\* effect has run or has been cleaned up, started lists the calls of
\* fetchMarketTrends with what triggered them, and shown is the call whose
\* setMarketTrends was the last to run
InitialHook ==
  [marketTrends |-> <<>>, isLoading |-> TRUE, error |-> Null, phase |-> "rendered",
   started |-> <<>>, shown |-> 0]

\* what coinMarketCapApi.getLatestListings can do: throw, answer without a
\* data array (response.data && Array.isArray(response.data) is false), or
\* answer with the listing of one coin at one of two prices
Coin(price) ==
  [id |-> 5426, symbol |-> "SOL", name |-> "Solana", cmc_rank |-> 5,
   quote |-> [USD |-> [price |-> price, percent_change_24h |-> 2,
                       market_cap |-> 80, volume_24h |-> 3]]]
ListingResponses ==
  {[status |-> "throws", isArray |-> FALSE, data |-> <<>>],
   [status |-> "ok", isArray |-> FALSE, data |-> <<>>]} \cup
  {[status |-> "ok", isArray |-> TRUE, data |-> <<Coin(price)>>] : price \in {1, 2}}

\* response.data.map(coin => ...)
FormattedData(data) ==
  [n \in 1..Len(data) |->
     [symbol |-> data[n].symbol, name |-> data[n].name,
      price |-> data[n].quote.USD.price,
      percentChange24h |-> data[n].quote.USD.percent_change_24h,
      marketCap |-> data[n].quote.USD.market_cap,
      volume24h |-> data[n].quote.USD.volume_24h,
      id |-> data[n].id, marketCapRank |-> data[n].cmc_rank,
      imageUrl |-> "https://s2.coinmarketcap.com/static/img/coins/64x64/"
                     \o ToString(data[n].id) \o ".png"]]

\* the fallback list of the hook (prices in cents, rounded)
FallbackTrends ==
  <<[symbol |-> "SOL", name |-> "Solana", price |-> 17240, percentChange24h |-> 2,
     marketCap |-> 0, volume24h |-> 0],
    [symbol |-> "USDC", name |-> "USD Coin", price |-> 100, percentChange24h |-> 0,
     marketCap |-> 0, volume24h |-> 0],
    [symbol |-> "BONK", name |-> "Bonk", price |-> 0, percentChange24h |-> 0 - 1,
     marketCap |-> 0, volume24h |-> 0],
    [symbol |-> "JUP", name |-> "Jupiter", price |-> 121, percentChange24h |-> 5,
     marketCap |-> 0, volume24h |-> 0]>>

\* fetchMarketTrends up to its await: setIsLoading(true)
FetchStarted(h, trigger) ==
  [h EXCEPT !.isLoading = TRUE,
            !.started = Append(h.started, [trigger |-> trigger, status |-> "pending"])]

\* fetchMarketTrends from the answer of call i to its end: the list and the
\* error are set from the answer, and finally isLoading is set to false
FetchSettled(h, i, response) ==
  [h EXCEPT !.marketTrends = IF response.status = "ok" /\ response.isArray
                             THEN FormattedData(response.data) ELSE FallbackTrends,
            !.error = IF response.status = "throws" THEN "Failed to fetch market data"
                      ELSE IF response.isArray THEN Null ELSE h.error,
            !.isLoading = FALSE,
            !.shown = i,
            !.started[i].status = "settled"]

\* ------------------------------------------------- transaction handler
\* what the connection can do: sendTransaction throws or returns a
\* signature; confirmTransaction throws or returns a confirmation whose
\* value.err is null, a string or an object; getTransaction throws, finds
\* nothing, or returns a transaction with or without a block time
NoError == [kind |-> "none", text |-> Null]
SendOutcomes ==
  {[status |-> "throws", error |-> [kind |-> "Error", text |-> "network error"],
    signature |-> Null]} \cup
  {[status |-> "ok", error |-> NoError, signature |-> sig] : sig \in {"5VERv8", "3nZq1k"}}
ConfirmOutcomes ==
  {[status |-> "throws", err |-> [kind |-> "Error", text |-> "timed out"]],
   [status |-> "ok", err |-> NoError],
   [status |-> "ok", err |-> [kind |-> "string", text |-> "AccountInUse"]],
   [status |-> "ok", err |-> [kind |-> "object", text |-> "InstructionError"]]}
GetTransactionOutcomes ==
  {[status |-> "throws", found |-> FALSE, blockTime |-> 0],
   [status |-> "ok", found |-> FALSE, blockTime |-> 0],
   [status |-> "ok", found |-> TRUE, blockTime |-> 0],
   [status |-> "ok", found |-> TRUE, blockTime |-> 1700000000]}

\* a TransactionResult; absent fields are Null (0 for the block time), and
\* threw tells whether the call ended in an exception instead
TransactionResult(success, signature, error, errorCode, blockTime) ==
  [threw |-> FALSE, success |-> success, signature |-> signature, error |-> error,
   errorCode |-> errorCode, blockTime |-> blockTime]

\* getTransactionBlockTime(signature): transaction?.blockTime || undefined,
\* and undefined when getTransaction throws; it never throws itself
GetTransactionBlockTime(transaction) ==
  IF transaction.status = "throws" THEN [threw |-> FALSE, blockTime |-> 0]
  ELSE [threw |-> FALSE,
        blockTime |-> IF transaction.found THEN transaction.blockTime ELSE 0]

\* mutant: the error of the confirmation is not looked at
ConfirmationFailedNever(confirmation) == FALSE

\* if (confirmation.value.err)
ConfirmationFailed(confirmation) == confirmation.err.kind # "none"

\* error instanceof Error ? error.message : 'Unknown error'
SendErrorCode(error) == IF error.kind = "Error" THEN error.text ELSE "Unknown error"

\* typeof confirmation.value.err === 'string' ? err : 'Unknown error'
ConfirmationErrorCode(err) == IF err.kind = "string" THEN err.text ELSE "Unknown error"

\* the try block of sendAndConfirmTransaction: the result it returns, or
\* the error thrown by sendTransaction or confirmTransaction
TryTransaction(send, confirmation, transaction) ==
  IF send.status = "throws" THEN [thrown |-> TRUE, error |-> send.error]
  ELSE IF confirmation.status = "throws"
  THEN [thrown |-> TRUE, error |-> confirmation.err]
  ELSE IF ConfirmationFailed(confirmation)
  THEN [thrown |-> FALSE,
        result |-> TransactionResult(FALSE, send.signature, confirmation.err,
                                     ConfirmationErrorCode(confirmation.err), 0)]
  ELSE LET time == GetTransactionBlockTime(transaction) IN
       [thrown |-> FALSE,
        result |-> IF time.threw
                   THEN TransactionResult(TRUE, send.signature, NoError, Null, 0)
                   ELSE TransactionResult(TRUE, send.signature, NoError, Null,
                                          time.blockTime)]

\* the catch block: the error is logged and returned in a failed result
CaughtTransaction(body) ==
  IF body.thrown
  THEN TransactionResult(FALSE, Null, body.error, SendErrorCode(body.error), 0)
  ELSE body.result

\* sendAndConfirmTransaction(transaction, signers, options) against a
\* connection that answers send, confirmation and transaction
SendAndConfirmTransaction(send, confirmation, transaction) ==
  CaughtTransaction(TryTransaction(send, confirmation, transaction))

\* ------------------------------------------------------ state machine
Init ==
  /\ prompt = <<>>
  /\ context = NoContext
  /\ result = NoResult
  /\ conversationContext = InitialConversationContext
  /\ invoked = Idle
  /\ updates = <<>>
  /\ walletAddress = Null
  /\ userProfile = InitialUserProfile
  /\ messages = <<>>
  /\ retryCount = 0
  /\ retryCalls = <<>>
  /\ hasGivenWalletWelcome = FALSE
  /\ session = IdleSession
  /\ cachedTokenPrices = <<>>
  /\ now = 0
  /\ priceFeed = [status |-> "throws", price |-> NoPrice]
  /\ lookup = NoLookup
  /\ inFlight = <<>>
  /\ sweep = [next |-> 1, kinds |-> {}]
  /\ sessionId = InitialSessionId
  /\ requestedSessionId = Null
  /\ fetches = <<>>
  /\ hook = InitialHook
  /\ transactions = <<>>
  /\ walletCalls = <<>>

\* one call of parseUserIntent(p, c), from entry to the returned response
ParseUserIntent(p, c) ==
  /\ \E out \in ParseOutcomes(p, c, conversationContext) :
       /\ result' = out.result
       /\ conversationContext' = out.mem
       /\ invoked' = out.invoked
       /\ lookup' = LookupOf(out)
       /\ cachedTokenPrices' = IF LookupOf(out).symbol # "" THEN LookupOf(out).cache
                               ELSE cachedTokenPrices
  /\ prompt' = p
  /\ context' = c
  /\ UNCHANGED <<updates, managerVars, sessionVars, now, priceFeed, inFlight, sweep,
                 factoryVars, asyncVars, walletCalls>>

\* the caller takes the response; the next message can be submitted
Return ==
  /\ invoked.path # "idle"
  /\ prompt' = <<>>
  /\ context' = NoContext
  /\ result' = NoResult
  /\ invoked' = Idle
  /\ lookup' = NoLookup
  /\ UNCHANGED <<conversationContext, updates, managerVars, sessionVars,
                 cachedTokenPrices, now, priceFeed, inFlight, sweep,
                 factoryVars, asyncVars, walletCalls>>

\* a message is submitted only when no call is in progress
Resolve ==
  /\ invoked.path = "idle"
  /\ Len(conversationContext.recentTopics) < MaxTurns
  /\ \E p \in Prompts, c \in RouterContexts : ParseUserIntent(p, c)

Next == Resolve \/ Return

Spec == Init /\ [][Next]_vars

ResolveTransfer ==
  /\ invoked.path = "idle"
  /\ Len(conversationContext.recentTopics) < MaxTurns
  /\ \E p \in GuardPrompts, c \in GuardContexts : ParseUserIntent(p, c)

NextGuard == ResolveTransfer \/ Return

SpecGuard == Init /\ [][NextGuard]_vars

\* a longer conversation over the prompts the tips depend on
ResolveForTips ==
  /\ invoked.path = "idle"
  /\ Len(conversationContext.recentTopics) < MaxTipTurns
  /\ \E p \in TipPrompts, c \in TipContexts : ParseUserIntent(p, c)

NextTips == ResolveForTips \/ Return

SpecTips == Init /\ [][NextTips]_vars

\* the conversation memory on its own: updateConversationContext called
\* with the arguments of a caller that also reports the tokens mentioned;
\* updates logs the arguments of the calls made so far
UpdateMemory(call) ==
  /\ Len(updates) < MaxUpdates
  /\ conversationContext' =
       UpdateConversationContext(conversationContext, call.userInput,
                                 call.matchedOperation, call.tokensMentioned)
  /\ updates' = Append(updates, call)
  /\ UNCHANGED <<prompt, context, result, invoked, managerVars, sessionVars, priceVars, inFlight, sweep,
                 factoryVars, asyncVars, walletCalls>>

Update == \E call \in MemoryCalls : UpdateMemory(call)

NextMemory == Update

SpecMemory == Init /\ [][NextMemory]_vars

\* ------------------------------------------------- the session's actions
WalletWelcome ==
  [role |-> "assistant",
   content |-> Filtered(Msg("wallet_welcome"), "formatWithPersonality")]

\* mutant: the welcome is given on every connection
InitializeWithWalletWelcomingEach(address) ==
  /\ session.path = "idle"
  /\ IF address # Null
     THEN /\ walletAddress' = address
          /\ userProfile' = WithWalletAddress(userProfile, address)
          /\ hasGivenWalletWelcome' = TRUE
          /\ messages' = Append(messages, WalletWelcome)
          /\ UNCHANGED conversationContext
     ELSE /\ walletAddress' = Null
          /\ userProfile' = WithWalletAddress(userProfile, Null)
          /\ conversationContext' = InitialConversationContext
          /\ UNCHANGED <<hasGivenWalletWelcome, messages>>
  /\ UNCHANGED <<prompt, context, result, invoked, updates, retryCount, retryCalls,
                 session, priceVars, inFlight, sweep,
                 factoryVars, asyncVars>>

\* initializeWithWallet(address); the log of the calls is kept by the
\* action that makes the call
InitializeWithWallet(address) ==
  /\ session.path = "idle"
  /\ IF address # Null
     THEN /\ walletAddress' = address
          /\ userProfile' = WithWalletAddress(userProfile, address)
          /\ hasGivenWalletWelcome' = TRUE
          /\ messages' = IF hasGivenWalletWelcome THEN messages
                         ELSE Append(messages, WalletWelcome)
          /\ UNCHANGED conversationContext
     ELSE /\ walletAddress' = Null
          /\ userProfile' = WithWalletAddress(userProfile, Null)
          /\ conversationContext' = InitialConversationContext
          /\ UNCHANGED <<hasGivenWalletWelcome, messages>>
  /\ UNCHANGED <<prompt, context, result, invoked, updates, retryCount, retryCalls,
                 session, priceVars, inFlight, sweep,
                 factoryVars, asyncVars>>

\* one call of processMessage(message, options), from entry to the response
ProcessMessage(message, options) ==
  /\ session.path = "idle"
  /\ Len(messages) < MaxMessages
  /\ \E o \in ProcessOutcomes(message, options, messages, userProfile,
                               conversationContext) :
       /\ session' = [path |-> o.path, message |-> message, generated |-> o.generated,
                      request |-> o.request, failed |-> o.failed,
                      escaped |-> o.escaped, response |-> o.response]
       /\ messages' = o.messages
       /\ conversationContext' = o.mem
       /\ cachedTokenPrices' = IF LookupOf(o).symbol # "" THEN LookupOf(o).cache
                               ELSE cachedTokenPrices
  /\ UNCHANGED <<prompt, context, result, invoked, updates, walletAddress,
                 userProfile, retryCount, retryCalls, hasGivenWalletWelcome,
                 now, priceFeed, lookup, inFlight, sweep,
                 factoryVars, asyncVars, walletCalls>>

\* the caller takes the response of processMessage
SessionReturn ==
  /\ session.path # "idle"
  /\ session' = IdleSession
  /\ UNCHANGED <<prompt, context, result, conversationContext, invoked, updates,
                 managerVars, hasGivenWalletWelcome, priceVars, inFlight, sweep,
                 factoryVars, asyncVars, walletCalls>>

Connect == \E address \in WalletAddresses :
             InitializeWithWallet(address) /\ UNCHANGED walletCalls
Process == \E message \in SessionMessages, options \in SessionOptions :
             ProcessMessage(message, options)

NextSession == Connect \/ Process \/ SessionReturn

SpecSession == Init /\ [][NextSession]_vars

\* ------------------------------------------------- wallet connections
\* connect, disconnect, reconnect, change of address: walletCalls logs the
\* arguments of the calls of initializeWithWallet
OtherAddress == "4Nd1mBQtrMJVYVfKf2PJy9NZUZdTAsp7D4xWLs4gDB4T"
ConnectableAddresses == {Null, OwnAddress, OtherAddress}

ConnectLogged ==
  /\ Len(walletCalls) < MaxWalletCalls
  /\ \E address \in ConnectableAddresses :
       /\ InitializeWithWallet(address)
       /\ walletCalls' = Append(walletCalls, address)

\* a message between two calls
Ask == ProcessMessage(<<"Check", "my", "balance">>,
                      [includeMarketData |-> FALSE, includeTokenData |-> FALSE,
                       fullAnalysis |-> FALSE])

NextWallet == ConnectLogged \/ Ask \/ SessionReturn

SpecWallet == Init /\ [][NextWallet]_vars

\* ------------------------------------------------- the session factory
\* createAISystem(given): a new AdvancedAISystem with a new context manager;
\* the conversation memory and the price cache belong to the module and
\* are not touched
CreateAISystem(given) ==
  /\ session.path = "idle"
  /\ requestedSessionId' = given
  /\ sessionId' \in NewSessionIds(given)
  /\ walletAddress' = Null
  /\ userProfile' = InitialUserProfile
  /\ messages' = <<>>
  /\ retryCount' = 0
  /\ retryCalls' = <<>>
  /\ hasGivenWalletWelcome' = FALSE
  /\ session' = IdleSession
  /\ walletCalls' = <<>>
  /\ UNCHANGED <<prompt, context, result, conversationContext, invoked, updates,
                 priceVars, inFlight, sweep, asyncVars>>

Create == \E given \in SessionIds : CreateAISystem(given)

NextFactory == Create \/ Ask \/ SessionReturn

SpecFactory == Init /\ [][NextFactory]_vars

\* ------------------------------------------------- transactions
\* one call of sendAndConfirmTransaction, logged with what the connection
\* answered
Transact ==
  /\ Len(transactions) < MaxTransactions
  /\ \E send \in SendOutcomes, confirmation \in ConfirmOutcomes,
        transaction \in GetTransactionOutcomes :
       transactions' = Append(transactions,
         [send |-> send, confirmation |-> confirmation, transaction |-> transaction,
          result |-> SendAndConfirmTransaction(send, confirmation, transaction)])
  /\ UNCHANGED <<prompt, context, result, conversationContext, invoked, updates,
                 managerVars, sessionVars, priceVars, inFlight, sweep, factoryVars,
                 fetches, hook, walletCalls>>

NextTransactions == Transact

SpecTransactions == Init /\ [][NextTransactions]_vars

\* ------------------------------------------------- market trends
\* the effect of the hook: the initial fetch, and the interval is set
Mount ==
  /\ hook.phase = "rendered"
  /\ hook' = FetchStarted([hook EXCEPT !.phase = "mounted"], "mount")
  /\ UNCHANGED <<prompt, context, result, conversationContext, invoked, updates,
                 managerVars, sessionVars, priceVars, inFlight, sweep, factoryVars,
                 fetches, transactions, walletCalls>>

\* the interval fires, or the component calls refreshData
Refresh(trigger) ==
  /\ hook.phase = "mounted"
  /\ Len(hook.started) < MaxFetches
  /\ hook' = FetchStarted(hook, trigger)
  /\ UNCHANGED <<prompt, context, result, conversationContext, invoked, updates,
                 managerVars, sessionVars, priceVars, inFlight, sweep, factoryVars,
                 fetches, transactions, walletCalls>>

\* getLatestListings answers call i, in whatever order the answers arrive;
\* the state of a component that is no longer mounted is not updated
ListingsAnswer(i, response) ==
  /\ hook.started[i].status = "pending"
  /\ hook' = IF hook.phase = "mounted" THEN FetchSettled(hook, i, response)
             ELSE [hook EXCEPT !.started[i].status = "settled"]
  /\ UNCHANGED <<prompt, context, result, conversationContext, invoked, updates,
                 managerVars, sessionVars, priceVars, inFlight, sweep, factoryVars,
                 fetches, transactions, walletCalls>>

\* the cleanup of the effect: the interval is cleared
Unmount ==
  /\ hook.phase = "mounted"
  /\ hook' = [hook EXCEPT !.phase = "unmounted"]
  /\ UNCHANGED <<prompt, context, result, conversationContext, invoked, updates,
                 managerVars, sessionVars, priceVars, inFlight, sweep, factoryVars,
                 fetches, transactions, walletCalls>>

IntervalFires == Refresh("interval")
RefreshData == Refresh("manual")
Listings == \E i \in 1..Len(hook.started), response \in ListingResponses :
              ListingsAnswer(i, response)

NextTrends == Mount \/ IntervalFires \/ RefreshData \/ Listings \/ Unmount

SpecTrends == Init /\ [][NextTrends]_vars

\* ------------------------------------------------- the retry counter
\* incrementRetryCount(); retryCalls logs the calls made so far
IncrementRetryCount ==
  /\ Len(retryCalls) < MaxRetryCalls
  /\ retryCount' = retryCount + 1
  /\ retryCalls' = Append(retryCalls, "incrementRetryCount")
  /\ UNCHANGED <<prompt, context, result, conversationContext, invoked, updates,
                 walletAddress, userProfile, messages, sessionVars, priceVars, inFlight, sweep,
                 factoryVars, asyncVars, walletCalls>>

\* resetRetryCount()
ResetRetryCount ==
  /\ Len(retryCalls) < MaxRetryCalls
  /\ retryCount' = 0
  /\ retryCalls' = Append(retryCalls, "resetRetryCount")
  /\ UNCHANGED <<prompt, context, result, conversationContext, invoked, updates,
                 walletAddress, userProfile, messages, sessionVars, priceVars, inFlight, sweep,
                 factoryVars, asyncVars, walletCalls>>

NextRetry == IncrementRetryCount \/ ResetRetryCount

SpecRetry == Init /\ [][NextRetry]_vars

\* ------------------------------------------------- prices over time
PricePrompts == {<<"Check", "my", "balance">>, <<"What", "is", "SOL">>}
PriceContexts == Contexts({10}, {0})
ClockSteps == {29, 30}

ResolvePriced ==
  /\ invoked.path = "idle"
  /\ Len(conversationContext.recentTopics) < MaxPriceTurns
  /\ \E p \in PricePrompts, c \in PriceContexts : ParseUserIntent(p, c)

\* time passes between two calls
Tick ==
  /\ invoked.path = "idle"
  /\ \E step \in ClockSteps : now + step <= MaxTime /\ now' = now + step
  /\ UNCHANGED <<prompt, context, result, conversationContext, invoked, updates,
                 managerVars, sessionVars, cachedTokenPrices, priceFeed, lookup, inFlight, sweep,
                 factoryVars, asyncVars, walletCalls>>

\* the price service changes what it answers
Quote ==
  /\ invoked.path = "idle"
  /\ \E feed \in PriceFeeds \ {priceFeed} : priceFeed' = feed
  /\ UNCHANGED <<prompt, context, result, conversationContext, invoked, updates,
                 managerVars, sessionVars, cachedTokenPrices, now, lookup, inFlight, sweep,
                 factoryVars, asyncVars, walletCalls>>

NextPrices == ResolvePriced \/ Return \/ Tick \/ Quote

SpecPrices == Init /\ [][NextPrices]_vars

\* ------------------------------------------------- price lookups in flight
\* the try block of the balance and tokenInfo handlers, split at the await
\* of fetchTokenPrice: the clock is read and the cache tested before the
\* request is sent, and the entry is stored with that reading of the clock
\* when the answer arrives
LookupHandlers == {"balance", "tokenInfo"}

\* a handler runs from its entry to the await, or to its return when the
\* entry of the cache is fresh
BeginLookup(handler, tokenSymbol) ==
  /\ Len(fetches) < MaxCalls
  /\ fetches' = Append(fetches,
       IF IsCacheValid(cachedTokenPrices, tokenSymbol, now)
       THEN [handler |-> handler, symbol |-> tokenSymbol, at |-> now,
             status |-> "returned", fetched |-> FALSE,
             price |-> cachedTokenPrices[tokenSymbol].price]
       ELSE [handler |-> handler, symbol |-> tokenSymbol, at |-> now,
             status |-> "fetching", fetched |-> TRUE, price |-> NoPrice])
  /\ UNCHANGED <<prompt, context, result, conversationContext, invoked, updates,
                 managerVars, sessionVars, priceVars, inFlight, sweep, factoryVars,
                 hook, transactions, walletCalls>>

\* fetchTokenPrice answers lookup i, in whatever order the answers arrive:
\* a truthy price is stored under the time read before the request
FetchAnswers(i, feed) ==
  /\ fetches[i].status = "fetching"
  /\ cachedTokenPrices' =
       IF feed.status = "ok" /\ feed.price # NoPrice
       THEN Put(cachedTokenPrices, fetches[i].symbol,
                [price |-> feed.price, timestamp |-> fetches[i].at])
       ELSE cachedTokenPrices
  /\ fetches' = [fetches EXCEPT
                   ![i].status = "returned",
                   ![i].price = FetchedPrice(cachedTokenPrices, fetches[i].symbol, feed)]
  /\ UNCHANGED <<prompt, context, result, conversationContext, invoked, updates,
                 managerVars, sessionVars, now, priceFeed, lookup, inFlight, sweep,
                 factoryVars, hook, transactions, walletCalls>>

Look == \E handler \in LookupHandlers : BeginLookup(handler, "SOL")
Answer == \E i \in 1..Len(fetches), feed \in PriceFeeds : FetchAnswers(i, feed)

NextLookups == Look \/ Answer \/ Tick

SpecLookups == Init /\ [][NextLookups]_vars

\* ------------------------------------------------- interleaved calls
\* calls of parseUserIntent that overlap: a call runs up to the await of
\* its handler, other calls may begin, and the call resumes when the
\* handler has returned
InterleavedPrompts == {<<"Check", "my", "balance">>, <<"market", "trends">>,
                       <<"Send", "5", "SOL", Addr1>>, <<"hello">>}
InterleavedContexts == Contexts({10}, {0})

\* the part of the general path after the await: the tip and the
\* suggestions are read from the memory as it is when the call resumes
AfterHandler(call, mem) ==
  UNION {
    IF r.threw
    THEN {[result |-> ErrorFallback, threw |-> TRUE, lookup |-> NoLookup]}
    ELSE {[result |-> [message |-> [r.message EXCEPT !.tip = t.tip],
                       intent |-> r.intent,
                       suggestions |-> mem.suggestedNextActions],
           threw |-> FALSE, lookup |-> LookupOf(r)] :
            t \in GetPersonalizedTips(call.context, mem)} :
    r \in Handler(call.op, call.match, [originalPrompt |-> <<>>] @@ call.context)}

\* parseUserIntent(p, c) from its entry to its first suspension: the fast
\* path and the general path stop at the await of the handler, the general
\* path after the memory update; the fallbacks return without suspending.
\* own is the suggestion list generated by the call's own update
Begin(p, c) ==
  /\ Len(inFlight) < MaxCalls
  /\ LET lowerPrompt == LowerPrompt(p)
         transferMatch == IF StartsWithTransferVerb(lowerPrompt)
                          THEN MatchAnchored(lowerPrompt, FastTransferPattern) ELSE <<>>
         found == CatalogWalk(p)
         call == [status |-> "awaiting", prompt |-> p, context |-> c, path |-> "fast",
                  op |-> "transfer", match |-> [groups |-> <<>>], own |-> NoSuggestions,
                  threw |-> FALSE, result |-> NoResult]
     IN IF transferMatch # <<>>
        THEN /\ inFlight' = Append(inFlight, [call EXCEPT !.match = transferMatch[1]])
             /\ UNCHANGED conversationContext
        ELSE IF found # <<>>
        THEN LET mem1 == UpdateConversationContext(conversationContext, p,
                                                  found[1].op, <<>>) IN
             /\ conversationContext' = mem1
             /\ inFlight' = Append(inFlight, [call EXCEPT !.path = "general",
                                                    !.op = found[1].op,
                                                    !.match = found[1].match,
                                                    !.own = mem1.suggestedNextActions])
        ELSE /\ \E out \in FallbackOutcomes(p, c, conversationContext) :
                  inFlight' = Append(inFlight, [call EXCEPT !.status = "returned",
                                                     !.path = out.invoked.path,
                                                     !.op = "",
                                                     !.result = out.result])
             /\ UNCHANGED conversationContext
  /\ UNCHANGED <<prompt, context, result, invoked, updates, managerVars, sessionVars,
                 priceVars, sweep,
                 factoryVars, asyncVars, walletCalls>>

\* the handler of call i has returned: the call runs to its return
Resume(i) ==
  /\ inFlight[i].status = "awaiting"
  /\ IF inFlight[i].path = "fast"
     THEN /\ \E out \in FastPathOutcomes(inFlight[i].prompt, inFlight[i].context,
                                          conversationContext, inFlight[i].match) :
               inFlight' = [inFlight EXCEPT ![i].status = "returned",
                                      ![i].threw = out.invoked.threw,
                                      ![i].result = out.result]
          /\ UNCHANGED cachedTokenPrices
     ELSE \E out \in AfterHandler(inFlight[i], conversationContext) :
            /\ inFlight' = [inFlight EXCEPT ![i].status = "returned",
                                      ![i].threw = out.threw,
                                      ![i].result = out.result]
            /\ cachedTokenPrices' = IF out.lookup.symbol # "" THEN out.lookup.cache
                                    ELSE cachedTokenPrices
  /\ UNCHANGED <<prompt, context, result, conversationContext, invoked, updates,
                 managerVars, sessionVars, now, priceFeed, lookup, sweep,
                 factoryVars, asyncVars, walletCalls>>

Submit == \E p \in InterleavedPrompts, c \in InterleavedContexts : Begin(p, c)
Settle == \E i \in 1..Len(inFlight) : Resume(i)

NextInterleaved == Submit \/ Settle

SpecInterleaved == Init /\ [][NextInterleaved]_vars

\* ------------------------------------------------- general-chat sweep
\* one prompt for every alternative of every pattern of
\* CONVERSATION_PATTERNS, resolved one after the other; sweep.kinds
\* collects the kinds of the general-chat replies returned so far
ChatCandidates == <<
  <<"hello">>, <<"good", "morning">>, <<"what's", "up">>,
  <<"bye">>, <<"see", "you">>, <<"have", "a", "nice", "day">>,
  <<"thanks">>, <<"thank", "you">>, <<"appreciate", "it">>,
  <<"who", "are", "you">>, <<"what", "are", "you">>,
  <<"tell", "me", "about", "yourself">>, <<"tell", "about", "yourself">>,
  <<"what", "can", "you", "do">>, <<"help", "me", "with">>,
  <<"please", "help", "me", "with", "this">>,
  <<"how", "does", "this", "work">>, <<"how", "does", "this", "app", "work">>,
  <<"tell", "me", "a", "joke">>, <<"tell", "a", "joke">>,
  <<"tell", "me", "a", "crypto", "joke">>, <<"tell", "a", "crypto", "joke">> >>
ChatContexts == Contexts({10, 60000}, {0})

ResolveCandidate ==
  /\ invoked.path = "idle"
  /\ sweep.next <= Len(ChatCandidates)
  /\ \E c \in ChatContexts : ParseUserIntent(ChatCandidates[sweep.next], c)

\* the caller takes the response and notes the kind of a general-chat reply
Collect ==
  /\ invoked.path # "idle"
  /\ sweep' = [next |-> sweep.next + 1,
               kinds |-> IF invoked.path = "chat"
                         THEN sweep.kinds \cup {result.message.kind} ELSE sweep.kinds]
  /\ prompt' = <<>>
  /\ context' = NoContext
  /\ result' = NoResult
  /\ invoked' = Idle
  /\ lookup' = NoLookup
  /\ UNCHANGED <<conversationContext, updates, managerVars, sessionVars,
                 cachedTokenPrices, now, priceFeed, inFlight, factoryVars, asyncVars, walletCalls>>

NextChat == ResolveCandidate \/ Collect

SpecChat == Init /\ [][NextChat]_vars

TypeOK ==
  /\ invoked.path \in {"idle", "fast", "general", "address", "chat"}
  /\ Len(conversationContext.recentTopics) <= MaxRecentTopics
\* ====================================================== properties
\* what a call was given, read off the prompt itself
FirstNumeral(p) ==
  CHOOSE i \in 1..Len(p) : p[i] \in Numerals /\ \A j \in 1..(i - 1) : p[j] \notin Numerals
SentAmount == NumeralValue[prompt[FirstNumeral(prompt)]]
SentToken == prompt[FirstNumeral(prompt) + 1]
Recipient == DetectSolanaAddress(prompt)
TransferCall == invoked.op = "transfer"
Funded ==
  \/ SentToken = "SOL" /\ SentAmount + TransactionFee <= context.balance
  \/ SentToken # "SOL" /\ context.balance >= TransactionFee
GuardPasses ==
  context.walletConnected /\ Recipient # "" /\ SentAmount > 0 /\ Funded
ConfirmSuggestions == <<"Confirm", "Cancel", "Check my balance">>
IsSendSuggestion(text) == \E v \in 0..(MaxBalance + 100) : text = SendSuggestion(v)

\* C1: a response carries a transfer intent only when the transfer handler
\* ran and every check of the guard passed (wallet connected, recipient
\* detected in the message, amount > 0, balance covering amount + fee for
\* SOL or the fee for another token); every other outcome of the transfer
\* handler has a null intent.
C1_TransferIntentOnlyAfterGuard ==
  /\ result.intent.action = "transfer" =>
       /\ TransferCall
       /\ GuardPasses
       /\ result.intent.recipient = Recipient
       /\ result.intent.amount = SentAmount
  /\ (TransferCall /\ ~GuardPasses) => result.intent = NullIntent

C1_Witness ==
  /\ result.intent.action = "transfer"
  /\ result.intent.token = "SOL"
  /\ result.intent.amount + TransactionFee = context.balance

\* C2: every emitted transfer intent is funded: the sender holds the amount
\* of the token sent, and the network fee in SOL on top.
C2_NoUnfundedTransfer ==
  result.intent.action = "transfer" =>
    IF result.intent.token = "SOL"
    THEN context.balance >= result.intent.amount + TransactionFee
    ELSE /\ context.tokenBalances[result.intent.token] >= result.intent.amount
         /\ context.balance >= TransactionFee

\* C3: a SOL transfer of A > 0 with A + fee > B >= A from a connected wallet
\* to a valid address is answered by the insufficient-for-fees response with
\* a null intent, and the amount of its "Send <x> SOL" suggestion is
\* max(0, B - fee) rounded to 4 decimals and is at most B - fee (at most 0
\* when B is below the fee).
C3_FeeShortfallSuggestion ==
  (/\ TransferCall
   /\ context.walletConnected
   /\ Recipient # ""
   /\ SentToken = "SOL"
   /\ SentAmount > 0
   /\ SentAmount + TransactionFee > context.balance
   /\ context.balance >= SentAmount) =>
    /\ result.intent = NullIntent
    /\ result.message.kind = "insufficient_for_fees"
    /\ \E v \in 0..(MaxBalance + 100) :
         /\ result.suggestions[1] = SendSuggestion(v)
         /\ v % 100 = 0
         /\ LET x == Max(0, context.balance - TransactionFee) IN
              2 * v <= 2 * x + 100 /\ 2 * x <= 2 * v + 100
         /\ v <= Max(0, context.balance - TransactionFee)

\* C4: a SOL transfer of A > B from a connected wallet to a valid address is
\* answered by the insufficient-balance response with a null intent, and no
\* suggestion of that response proposes an amount to send.
C4_InsufficientBalanceFirst ==
  (/\ TransferCall
   /\ context.walletConnected
   /\ Recipient # ""
   /\ SentToken = "SOL"
   /\ SentAmount > context.balance) =>
    /\ result.intent = NullIntent
    /\ result.message.kind = "insufficient_balance"
    /\ \A i \in 1..Len(result.suggestions) : ~IsSendSuggestion(result.suggestions[i])

C4_Witness ==
  /\ TransferCall
  /\ context.walletConnected
  /\ Recipient # ""
  /\ SentToken = "SOL"
  /\ SentAmount > context.balance
  /\ SentAmount <= context.balance + TransactionFee
  /\ result.message.kind = "insufficient_balance"

\* C5 as stated: whenever no address is detected in the message, the
\* transfer handler answers with the valid-address clarification and a null
\* intent, and no transfer intent carries an undetected recipient.
C5_Original ==
  /\ (TransferCall /\ Recipient = "") =>
       result.intent = NullIntent /\ result.message.kind = "no_valid_address"
  /\ result.intent.action = "transfer" =>
       Recipient # "" /\ result.intent.recipient = Recipient

\* C5 amended: for a connected wallet, whenever no address is detected in the
\* message the transfer handler answers with the valid-address clarification
\* and a null intent (a disconnected wallet gets the connect-wallet
\* clarification, also with a null intent); no transfer intent carries an
\* undetected recipient.
C5_MissingAddress ==
  /\ (TransferCall /\ Recipient = "") =>
       /\ result.intent = NullIntent
       /\ result.message.kind =
            IF context.walletConnected THEN "no_valid_address"
            ELSE "connect_wallet_transfer"
  /\ result.intent.action = "transfer" =>
       Recipient # "" /\ result.intent.recipient = Recipient

C5_Witness ==
  /\ TransferCall
  /\ context.walletConnected
  /\ Includes(prompt, BadAddr)
  /\ Recipient = ""
  /\ result.message.kind = "no_valid_address"

\* C6: the transfer handler answers with the clarification of the earliest
\* failing check in the order wallet connected, recipient found, amount > 0,
\* balance / fee sufficiency, and confirms only when none fails.
C6_EarliestFailingCheck ==
  TransferCall =>
    IF ~context.walletConnected THEN result.message.kind = "connect_wallet_transfer"
    ELSE IF Recipient = "" THEN result.message.kind = "no_valid_address"
    ELSE IF ~(SentAmount > 0) THEN result.message.kind = "invalid_amount"
    ELSE IF ~Funded
         THEN result.message.kind \in
                {"insufficient_balance", "insufficient_for_fees", "insufficient_fee_balance"}
         ELSE result.message.kind = "confirm_transfer"

C6_Witness ==
  /\ TransferCall
  /\ ~context.walletConnected
  /\ Recipient = ""
  /\ SentAmount = 0
  /\ result.message.kind = "connect_wallet_transfer"

\* C7 as stated: every transfer that passes the guard is answered with the
\* intent {transfer, R, A, upper-cased token}, a message embedding the first
\* 4 and last 4 characters of R, and the suggestions Confirm, Cancel,
\* Check my balance.
C7_Original ==
  (TransferCall /\ GuardPasses) =>
    /\ result.intent = [action |-> "transfer", recipient |-> Recipient,
                        amount |-> SentAmount, token |-> SentToken]
    /\ result.message.kind = "confirm_transfer"
    /\ (Recipient = Addr1 => result.message.recipient = "7xKX...gAsU")
    /\ result.suggestions = ConfirmSuggestions

\* C7 amended: every transfer that passes the guard is answered with the
\* intent {transfer, R, A, upper-cased token} and a message embedding the
\* first 4 and last 4 characters of R; the suggestions are Confirm, Cancel,
\* Check my balance when the transfer was reached by the fast path, and the
\* suggestions of the conversation memory when it was reached by the
\* catalog walk.
C7_ConfirmedTransfer ==
  (TransferCall /\ GuardPasses) =>
    /\ result.intent = [action |-> "transfer", recipient |-> Recipient,
                        amount |-> SentAmount, token |-> SentToken]
    /\ result.message.kind = "confirm_transfer"
    /\ (Recipient = Addr1 => result.message.recipient = "7xKX...gAsU")
    /\ result.suggestions =
         IF invoked.path = "fast" THEN ConfirmSuggestions
         ELSE conversationContext.suggestedNextActions

C7_Witness ==
  /\ TransferCall
  /\ GuardPasses
  /\ invoked.path = "fast"
  /\ Recipient = Addr1
  /\ result.suggestions = ConfirmSuggestions

\* C8: a prompt that begins with a transfer verb, an amount and a token of
\* the transfer pattern is resolved by the fast path to the transfer
\* handler, also when the generic "<amount> <token> to <token>" swap pattern
\* matches it; no other handler runs.
BeginsWithTransfer(p) ==
  /\ Len(p) >= 3
  /\ ToLowerCase(p[1]) \in TransferVerbs
  /\ p[2] \in Numerals
  /\ ToLowerCase(p[3]) \in TransferTokens

C8_FastPathWins ==
  (invoked.path # "idle" /\ BeginsWithTransfer(prompt)) =>
    invoked.path = "fast" /\ invoked.op = "transfer"

C8_Witness ==
  /\ BeginsWithTransfer(prompt)
  /\ Match(prompt, SwapPatterns[6]) # <<>>
  /\ invoked.path = "fast"
  /\ invoked.op = "transfer"

\* C9: every prompt that matches a pattern of the transfer operation is
\* resolved to the transfer handler, wherever the verb stands in the prompt.
MatchesTransfer(p) ==
  \E j \in 1..Len(TransferPatterns) : Match(p, TransferPatterns[j]) # <<>>

C9_TransferNeverShadowed ==
  (invoked.path # "idle" /\ MatchesTransfer(prompt)) => invoked.op = "transfer"

\* C10: on the catalog walk the handler that runs is that of the first
\* operation, in the order swap, balance, tokenInfo, price, history,
\* marketTrends, help, transfer, cryptoKnowledge, marketAnalysis,
\* investmentEducation, that has a matching pattern, called with the match
\* of the first of its patterns that matches.
CatalogOrder == <<"swap", "balance", "tokenInfo", "price", "history", "marketTrends",
                  "help", "transfer", "cryptoKnowledge", "marketAnalysis",
                  "investmentEducation">>
MatchingPatterns ==
  [p \in Prompts |->
     [k \in 1..Len(OPERATIONS) |->
        {j \in 1..Len(OPERATIONS[k].patterns) : Match(p, OPERATIONS[k].patterns[j]) # <<>>}]]

C10_DeclarationOrderWins ==
  invoked.path = "general" =>
    \E k \in 1..Len(CatalogOrder) :
      /\ CatalogOrder[k] = invoked.op
      /\ OPERATIONS[k].name = invoked.op
      /\ \A e \in 1..(k - 1) : MatchingPatterns[prompt][e] = {}
      /\ invoked.pattern \in MatchingPatterns[prompt][k]
      /\ \A j \in MatchingPatterns[prompt][k] : invoked.pattern <= j
      /\ invoked.groups = Match(prompt, OPERATIONS[k].patterns[invoked.pattern])[1].groups

C10_Witness ==
  /\ invoked.path = "general"
  /\ invoked.op = "marketTrends"
  /\ MatchingPatterns[prompt][10] # {}
  /\ MatchingPatterns[prompt][9] # {}

\* C11: a prompt "<swap verb> <amount> <from-token> to <to-token>" is
\* resolved to the swap operation with an intent whose action is swap,
\* whose token is the destination token and whose price is the amount.
SwapVerbs == {"swap", "convert", "exchange", "trade", "change"}
IsSwapCommand(p) ==
  /\ Len(p) = 5
  /\ ToLowerCase(p[1]) \in SwapVerbs
  /\ p[2] \in Numerals
  /\ p[3] \in DOMAIN TOKEN_INFO
  /\ p[4] = "to"
  /\ p[5] \in DOMAIN TOKEN_INFO

C11_SwapIntentNamesDestination ==
  (invoked.path # "idle" /\ IsSwapCommand(prompt)) =>
    /\ invoked.op = "swap"
    /\ result.intent.action = "swap"
    /\ result.intent.token = prompt[5]
    /\ result.intent.price = NumeralValue[prompt[2]]

\* C12: for every symbol S of the token registry the prompt
\* "Tell me about S" is resolved to tokenInfo with the intent
\* {tokenInfo, S} and a message carrying the category and the launch year
\* of S (for JUP: "DEX token" and 2024).
IsTellMeAbout(p) ==
  /\ Len(p) = 4
  /\ SubSeq(p, 1, 3) = <<"Tell", "me", "about">>
  /\ p[4] \in DOMAIN TOKEN_INFO

C12_TellMeAboutToken ==
  (invoked.path # "idle" /\ IsTellMeAbout(prompt)) =>
    /\ invoked.op = "tokenInfo"
    /\ result.intent = [action |-> "tokenInfo", token |-> prompt[4]]
    /\ result.message.kind = "token_info"
    /\ result.message.category = TOKEN_INFO[prompt[4]].category
    /\ result.message.year_launched = TOKEN_INFO[prompt[4]].year_launched
    /\ (prompt[4] = "JUP" =>
          result.message.category = "DEX token" /\ result.message.year_launched = 2024)
\* C13: no exception escapes parseUserIntent: whenever a handler throws, the
\* call still returns a response, and that response is the fixed fallback
\* message with a null intent and the suggestions "Check my balance",
\* "What can you help me with?".
DefaultSuggestions == <<"Check my balance", "What can you help me with?">>

C13_ExceptionsBecomeFallback ==
  /\ invoked.path # "idle" => result.message.kind \notin {"none", "exception"}
  /\ invoked.threw =>
       /\ result.message.kind = "router_error"
       /\ result.intent = NullIntent
       /\ result.suggestions = DefaultSuggestions

C13_Witness ==
  /\ invoked.threw
  /\ invoked.op = "investmentEducation"
  /\ result.message.kind = "router_error"

\* the suggestion lists the transfer handler returns
IsHandlerSuggestions(list) ==
  \/ list \in {<<"How do I connect my wallet?", "What is a wallet?">>,
               <<"What does a Solana address look like?", "How do I copy a wallet address?">>,
               <<"Send 0.001 SOL", "How much SOL should I transfer?">>,
               <<"Check my balance", "How do I get more SOL?">>,
               ConfirmSuggestions}
  \/ Len(list) = 2 /\ IsSendSuggestion(list[1]) /\ list[2] = "Check my balance"

NoCatalogMatch(p) ==
  /\ ~BeginsWithTransfer(p)
  /\ \A k \in 1..Len(OPERATIONS) : MatchingPatterns[p][k] = {}
ChatKinds == {"greeting", "farewell", "thanks", "identity", "capabilities", "joke",
              "generic_redirect"}

C15_AddressBeforeChat ==
  (invoked.path # "idle" /\ NoCatalogMatch(prompt)) =>
    IF Recipient # ""
    THEN /\ invoked.path = "address"
         /\ result.message.kind = "address_detected"
         /\ result.intent = NullIntent
    ELSE /\ invoked.path = "chat"
         /\ result.message.kind \in ChatKinds

C15_Witness ==
  /\ invoked.path = "address"
  /\ ToLowerCase(prompt[1]) = "hello"
  /\ Recipient = Addr1
  /\ result.message.kind = "address_detected"
\* C16: in every state reached by any sequence of memory updates,
\* recentTopics has at most 8 elements, recentTokens at most 10,
\* preferredActions at most 3, favoriteTokens at most 5 and
\* suggestedNextActions at most 3.
C16_ListsWithinCaps ==
  /\ Len(conversationContext.recentTopics) <= 8
  /\ Len(conversationContext.recentTokens) <= 10
  /\ Len(conversationContext.preferredActions) <= 3
  /\ Len(conversationContext.favoriteTokens) <= 5
  /\ Len(conversationContext.suggestedNextActions) <= 3

C16_Witness ==
  /\ Len(updates) > 8
  /\ Len(conversationContext.recentTopics) = 8
  /\ Len(conversationContext.recentTokens) = 10
  /\ Len(conversationContext.preferredActions) = 3
  /\ Len(conversationContext.favoriteTokens) = 5
  /\ Len(conversationContext.suggestedNextActions) = 3

\* what the calls logged in updates inserted, oldest first
RECURSIVE InsertedTokens(_)
InsertedTokens(calls) ==
  IF calls = <<>> THEN <<>> ELSE calls[1].tokensMentioned \o InsertedTokens(Tail(calls))
InsertedTopics(calls) == [i \in 1..Len(calls) |-> calls[i].matchedOperation]
\* the n most recent elements of a log, most recent first
MostRecent(log, n) ==
  [i \in 1..(IF Len(log) < n THEN Len(log) ELSE n) |-> log[Len(log) + 1 - i]]

\* C17: after N token insertions recentTokens is the min(N, 10) most
\* recently inserted tokens, most recent first (for N > 10 its length is 10
\* and its head is the last token inserted); recentTopics is the same with
\* the cap 8.
C17_MostRecentFirst ==
  /\ conversationContext.recentTokens = MostRecent(InsertedTokens(updates), 10)
  /\ conversationContext.recentTopics = MostRecent(InsertedTopics(updates), 8)

C17_Witness ==
  /\ Len(InsertedTokens(updates)) > 10
  /\ Len(updates) > 8
  /\ Len(conversationContext.recentTokens) = 10
  /\ conversationContext.recentTokens[1] = InsertedTokens(updates)[Len(InsertedTokens(updates))]
  /\ Len(conversationContext.recentTopics) = 8
  /\ conversationContext.recentTopics[1] = updates[Len(updates)].matchedOperation

\* what an input contains, read off its text as a whole
TextIncludes(text, term) ==
  \E k \in 1..(Len(text) - Len(term) + 1) : SubSeq(text, k, k + Len(term) - 1) = term
LowerText(userInput) == LowerChars(Join(userInput), 1)
TechnicalInputs ==
  {call.userInput : call \in
     {c \in MemoryCalls :
        \E term \in {"tvl", "liquidity", "amm", "slippage", "liquidity pool", "apy", "yield"} :
          TextIncludes(LowerText(c.userInput), term)}}
CasualInputs ==
  {call.userInput : call \in
     {c \in MemoryCalls :
        \E term \in {"moon", "dump", "pump", "wen", "lambo", "fomo", "yolo"} :
          TextIncludes(LowerText(c.userInput), term)}}
MentionsTechnical(userInput) == userInput \in TechnicalInputs
MentionsCasual(userInput) == userInput \in CasualInputs
LastUpdate == updates[Len(updates)]

\* C18: every memory update makes the interaction style technical when the
\* input contains a technical term and no casual term, casual when it
\* contains a casual term and no technical term, and leaves it as it was
\* when the input contains both kinds or neither.
C18_StyleFollowsTerms ==
  [][updates' # updates =>
       LET input == updates'[Len(updates')].userInput IN
       conversationContext'.interactionStyle =
         IF MentionsTechnical(input) /\ ~MentionsCasual(input) THEN "technical"
         ELSE IF MentionsCasual(input) /\ ~MentionsTechnical(input) THEN "casual"
         ELSE conversationContext.interactionStyle]_vars

C18_Witness ==
  /\ Len(updates) >= 2
  /\ conversationContext.interactionStyle = "casual"
  /\ LastUpdate.userInput = <<"pump", "the", "liquidity">>
  /\ updates[Len(updates) - 1].userInput = <<"moonshot", "soon">>
\* C19: after a match of operation X on the general path the suggestions
\* returned depend on X alone: balance gives "Swap 1 SOL to USDC" and the
\* history suggestion; tokenInfo gives a swap suggestion with the token
\* asked about (from SOL to the favorite token, USDC by default, when that
\* token is SOL) and the market-trends suggestion; marketTrends gives
\* "Tell me about" a recent or default token and the balance suggestion;
\* history gives balance and market trends; swap gives balance and history;
\* every other operation gives the generic triplet.  (Calls whose handler
\* throws are left aside.)
AskedToken == ToUpperCase(invoked.groups[1])
FavoriteOrDefault ==
  IF Len(conversationContext.favoriteTokens) > 0
  THEN conversationContext.favoriteTokens[1] ELSE "USDC"
RecentOrDefault ==
  IF Len(conversationContext.recentTokens) > 0
  THEN conversationContext.recentTokens[1] ELSE "JUP"

C19_SuggestionsKeyedOnOperation ==
  (invoked.path = "general" /\ ~invoked.threw) =>
    result.suggestions =
      CASE invoked.op = "balance" ->
             <<"Swap 1 SOL to USDC", "Show my transaction history">>
        [] invoked.op = "tokenInfo" ->
             <<IF AskedToken # "SOL" THEN "Swap 10 " \o AskedToken \o " to SOL"
               ELSE "Swap 1 SOL to " \o FavoriteOrDefault,
               "What are the market trends?">>
        [] invoked.op = "marketTrends" ->
             <<"Tell me about " \o RecentOrDefault, "Check my balance">>
        [] invoked.op = "history" ->
             <<"Check my balance", "What are the market trends?">>
        [] invoked.op = "swap" ->
             <<"Check my balance", "Show my transaction history">>
        [] OTHER ->
             <<"What tokens do you support?", "Check my balance",
               "What are the market trends?">>

\* the candidates of getPersonalizedTips, read off the memory and the
\* wallet after the call
TopicSeen(topic) == Includes(conversationContext.recentTopics, topic)
KnownToken ==
  IF Len(conversationContext.favoriteTokens) > 0 THEN conversationContext.favoriteTokens[1]
  ELSE IF Len(conversationContext.recentTokens) > 0 THEN conversationContext.recentTokens[1]
  ELSE ""
GatePassed(i) == invoked.gates # <<>> /\ invoked.gates[i] = "pass"
SwapTip == "Tip: You can swap your SOL for other tokens by typing 'Swap 1 SOL to USDC'."
LowBalanceTip == "Tip: Your SOL balance is low. You'll need SOL to pay for transaction fees when swapping tokens."
TrendsTip == "Tip: Ask 'What are the market trends?' to get insights on current token performance."
HistoryTip == "Tip: You can view your recent transactions by asking 'Show my transaction history'."
ExpectedTip ==
  IF TopicSeen("balance") /\ ~TopicSeen("swap") /\ GatePassed(1) THEN SwapTip
  ELSE IF TopicSeen("swap") /\ ~TopicSeen("tokenInfo") /\ KnownToken # "" /\ GatePassed(2)
  THEN "Tip: You can learn more about " \o KnownToken
         \o " by asking \"Tell me about " \o KnownToken \o "\"."
  ELSE IF context.walletConnected /\ context.balance < 50000 THEN LowBalanceTip
  ELSE IF ~TopicSeen("marketTrends") /\ Len(conversationContext.recentTokens) > 0
          /\ GatePassed(3)
  THEN TrendsTip
  ELSE IF context.walletConnected /\ Len(conversationContext.recentTopics) > 2
          /\ ~TopicSeen("history") /\ GatePassed(4)
  THEN HistoryTip
  ELSE ""

\* C20: a response carries at most one tip, and it is that of the first
\* candidate in the order balance-without-swap, swap-without-tokenInfo, low
\* balance, no market trends yet, no history yet whose context condition
\* holds and whose random gate (when it has one) passed; when no candidate
\* fires the message of the handler is returned without a tip.
C20_FirstTipWins ==
  /\ (invoked.path = "general" /\ ~invoked.threw) => result.message.tip = ExpectedTip
  /\ (invoked.path # "general" \/ invoked.threw) => result.message.tip = ""

C20_Witness ==
  /\ invoked.path = "general"
  /\ TopicSeen("balance") /\ ~TopicSeen("swap") /\ GatePassed(1)
  /\ context.walletConnected /\ context.balance < 50000
  /\ result.message.tip = SwapTip

C20_WitnessLaterCandidate ==
  /\ invoked.path = "general"
  /\ TopicSeen("balance") /\ ~TopicSeen("swap") /\ invoked.gates[1] = "fail"
  /\ GatePassed(4)
  /\ result.message.tip = HistoryTip

\* ---------------------------------------------------------------- C21
\* C21: the conversation memory changes only in a call that matched a
\* catalog operation on the general path: a call that ends on the transfer
\* fast path, in the bare-address fallback, in the general-chat matcher or
\* in the generic redirect leaves every field of the memory as it was
C21_MemoryOnlyOnGeneralPath ==
  [][/\ invoked'.path \in {"fast", "address", "chat"}
          => conversationContext' = conversationContext
     /\ conversationContext' # conversationContext => invoked'.path = "general"]_vars

\* a fast-path transfer answered while the memory holds an earlier topic
C21_Witness ==
  /\ invoked.path = "fast"
  /\ conversationContext.recentTopics # <<>>
  /\ conversationContext.suggestedNextActions # <<>>

\* ---------------------------------------------------------------- C22
StaticSuggestions ==
  <<"Check my balance", "Tell me about Solana", "What are current market trends?">>

Distinct(list) == \A i, j \in 1..Len(list) : list[i] = list[j] => i = j

\* C23: a call of processMessage that ends in the small-talk reply returns
\* the canned reply with no intent and exactly 3 different casual
\* suggestions, and does so before any stateful processing: the message
\* history and the conversation memory are what they were, and the
\* generator (and with it the intent router) has not been called
C23_SmallTalkShortCircuit ==
  [][session'.path = "small_talk"
       => /\ session'.response.message.text.kind = "small_talk"
          /\ session'.response.intent = NoIntent
          /\ Len(session'.response.suggestions) = 3
          /\ Distinct(session'.response.suggestions)
          /\ \A i \in 1..3 : Includes(casualSuggestions, session'.response.suggestions[i])
          /\ ~session'.generated
          /\ messages' = messages
          /\ conversationContext' = conversationContext]_vars

\* small talk answered in a session that already has history and memory
C23_Witness ==
  /\ session.path = "small_talk"
  /\ Len(messages) >= 2
  /\ conversationContext.recentTopics # <<>>

\* ---------------------------------------------------------------- C24
\* C24: the context processMessage hands to the generator reflects the
\* wallet of the session: connected with address a after
\* initializeWithWallet(a), not connected with a null address after
\* initializeWithWallet(null)
C24_RequestReflectsWallet ==
  session.generated
    => /\ session.request.walletConnected = (walletAddress # Null)
       /\ session.request.walletAddress = walletAddress

\* ---------------------------------------------------------------- C25
\* the entry the handler found for the symbol it looked up, and its age
HadEntry == lookup.symbol \in DOMAIN lookup.before
EntryAge == lookup.at - lookup.before[lookup.symbol].timestamp
FetchSucceeded == lookup.feed.status = "ok" /\ lookup.feed.price # NoPrice

\* C25: the balance and tokenInfo handlers use a cached price without a
\* fetch only when the entry is less than 60 seconds old; when the entry is
\* missing or 60 seconds old or older they fetch, and a successful fetch
\* replaces the entry with the fetched price
C25_CachedPriceOnlyWhenFresh ==
  lookup.symbol # ""
    => /\ ~lookup.fetched
            => /\ HadEntry
               /\ EntryAge < 60
               /\ result.message.priceInfo = lookup.before[lookup.symbol].price
       /\ (~HadEntry \/ EntryAge >= 60)
            => /\ lookup.fetched
               /\ FetchSucceeded
                    => /\ lookup.symbol \in DOMAIN cachedTokenPrices
                       /\ cachedTokenPrices[lookup.symbol].price = lookup.feed.price

\* an entry of exactly 60 seconds is replaced by a different fetched price
C25_Witness ==
  /\ lookup.symbol # ""
  /\ HadEntry
  /\ EntryAge = 60
  /\ lookup.fetched
  /\ FetchSucceeded
  /\ lookup.before[lookup.symbol].price # lookup.feed.price
  /\ cachedTokenPrices[lookup.symbol].price = lookup.feed.price

\* an entry of 59 seconds is used without a fetch
C25_WitnessFresh ==
  /\ lookup.symbol # ""
  /\ ~lookup.fetched
  /\ EntryAge = 59
  /\ result.message.priceInfo # NoPrice

\* ---------------------------------------------------------------- C26
\* C26: when the fetch of the balance or tokenInfo handler throws or
\* yields no price, the cache is left as it was, the stale price is not
\* shown, and the handler returns its primary response with its intent,
\* without the price text
C26_FetchFailureKeepsResponse ==
  (lookup.symbol # "" /\ lookup.fetched /\ ~FetchSucceeded)
    => /\ cachedTokenPrices = lookup.before
       /\ result.message.priceInfo = NoPrice
       /\ result.message.kind = (IF invoked.op = "balance" THEN "balance" ELSE "token_info")
       /\ result.intent.action = invoked.op

\* the fetch throws while the cache holds a stale entry
C26_Witness ==
  /\ lookup.symbol # ""
  /\ lookup.fetched
  /\ lookup.feed.status = "throws"
  /\ HadEntry
  /\ lookup.before[lookup.symbol].price # NoPrice
  /\ result.message.priceInfo = NoPrice

\* the fetch yields no price in the tokenInfo handler
C26_WitnessNoPrice ==
  /\ lookup.symbol # ""
  /\ lookup.fetched
  /\ lookup.feed.status = "ok"
  /\ lookup.feed.price = NoPrice
  /\ invoked.op = "tokenInfo"

\* ---------------------------------------------------------------- C27
RECURSIVE IncrementsSinceReset(_)
IncrementsSinceReset(calls) ==
  IF calls = <<>> THEN 0
  ELSE IF calls[Len(calls)] = "resetRetryCount" THEN 0
  ELSE 1 + IncrementsSinceReset(SubSeq(calls, 1, Len(calls) - 1))

\* C27: after every sequence of incrementRetryCount and resetRetryCount
\* calls, hasExceededRetries() is true exactly when the increments since
\* the last reset are more than the budget of 3, and it is false right
\* after resetRetryCount
C27_ExceededBeyondBudget ==
  /\ HasExceededRetries(retryCount) <=> IncrementsSinceReset(retryCalls) > 3
  /\ (retryCalls # <<>> /\ retryCalls[Len(retryCalls)] = "resetRetryCount")
       => ~HasExceededRetries(retryCount)

\* ---------------------------------------------------------------- C28
\* C28: when calls of resolve interleave at the suspension point of a
\* handler, every call that returns from a matched operation carries the
\* suggestions generated by its own memory update, never those of a call
\* that began while its handler was awaited
C28_OwnSuggestions ==
  \A i \in 1..Len(inFlight) :
    (inFlight[i].status = "returned" /\ inFlight[i].path = "general" /\ ~inFlight[i].threw)
      => inFlight[i].result.suggestions = inFlight[i].own

\* ---------------------------------------------------------------- C29
ChatCategories == {"greeting", "farewell", "thanks", "identity", "capabilities", "joke"}

\* C29: each of the six general-chat categories is reachable through
\* resolve: once a prompt for every alternative of every pattern of the
\* categories has been resolved, each category has answered at least one
\* of them with its canned response
C29_EveryCategoryReachable ==
  sweep.next > Len(ChatCandidates) => ChatCategories \subseteq sweep.kinds

\* ---------------------------------------------------------------- C30
\* C30: a prompt that resolve routes to investmentEducation is answered
\* with an intent of action "investment_education" and the message of the
\* handler, not with the error fallback of the router
C30_InvestmentEducationAnswers ==
  (invoked.path = "general" /\ invoked.op = "investmentEducation")
    => /\ result.intent.action = "investment_education"
       /\ result.message.kind # "router_error"

\* ---------------------------------------------------------------- C31
\* C31: a call of resolve that returns the fixed error fallback because a
\* handler threw leaves the conversation memory as it was before the call:
\* no topic, no preferred action and no regenerated suggestions
C31_FailedTurnKeepsMemory ==
  [][(invoked.path = "idle" /\ invoked'.threw)
       => conversationContext' = conversationContext]_vars

\* ---------------------------------------------------------------- C32
\* the transfer of the call resubmitted with amount v: same token, same
\* address, same wallet context
Resubmitted(v) ==
  ParseOutcomes(<<"Send", ToString(v), SentToken, "to", Recipient>>, context,
                conversationContext)

\* C32: the amount suggested by the insufficient-for-fees response is
\* sendable: whenever the balance is at least the fee, the same transfer
\* resubmitted with the suggested amount passes every check of the guard
\* and is answered with a transfer intent
C32_SuggestedAmountSendable ==
  (/\ TransferCall
   /\ result.message.kind = "insufficient_for_fees"
   /\ context.balance >= TransactionFee) =>
    \A v \in 0..(MaxBalance + 100) :
      result.suggestions[1] = SendSuggestion(v) =>
        /\ TransferChecks(context, Recipient, v, SentToken) = "ok"
        /\ \A out \in Resubmitted(v) : out.result.intent.action = "transfer"

\* ---------------------------------------------------------------- C33
\* C33: on the fast path and on the general path alike, the recipient of an
\* emitted transfer intent is the address detected in the prompt as the
\* user typed it, with its letter case: the fast path matches the
\* lower-cased prompt (its groups are lower-cased) and still detects the
\* address in the original text
C33_RecipientFromOriginalPrompt ==
  result.intent.action = "transfer" =>
    /\ invoked.path \in {"fast", "general"}
    /\ result.intent.recipient = DetectSolanaAddress(prompt)
    /\ result.intent.recipient \in {prompt[i] : i \in 1..Len(prompt)}
    /\ invoked.path = "fast" => invoked.groups[2] = ToLowerCase(SentToken)
    /\ DetectSolanaAddress(LowerPrompt(prompt)) # DetectSolanaAddress(prompt)
         => result.intent.recipient # DetectSolanaAddress(LowerPrompt(prompt))

\* a fast-path transfer to an address whose lower-cased copy is itself a
\* well-formed address, different from the one typed
C33_Witness ==
  /\ result.intent.action = "transfer"
  /\ invoked.path = "fast"
  /\ DetectSolanaAddress(LowerPrompt(prompt)) \notin {"", DetectSolanaAddress(prompt)}
  /\ result.intent.recipient = Addr1

\* the same on the catalog walk: the transfer verb is not the first word
C33_WitnessGeneralPath ==
  /\ result.intent.action = "transfer"
  /\ invoked.path = "general"
  /\ DetectSolanaAddress(LowerPrompt(prompt)) \notin {"", DetectSolanaAddress(prompt)}
  /\ result.intent.recipient = Addr1

\* ---------------------------------------------------------------- C34
\* C34: every swap intent emitted by the swap handler carries a number in
\* its price field, never NaN, whichever swap pattern matched, the
\* "swap all <from> to <to>" patterns included
C34_SwapPriceIsNumeric ==
  (invoked.op = "swap" /\ result.intent.action = "swap")
    => result.intent.price # NaN /\ result.intent.price \in Nat

\* ---------------------------------------------------------------- C35
\* C35: when executions of the balance and tokenInfo handlers for the same
\* symbol overlap, an entry of the price cache is never replaced by an
\* entry with an older timestamp: the timestamp stored for a symbol never
\* decreases
C35_TimestampNeverDecreases ==
  [][\A s \in DOMAIN cachedTokenPrices :
       /\ s \in DOMAIN cachedTokenPrices'
       /\ cachedTokenPrices'[s].timestamp >= cachedTokenPrices[s].timestamp]_vars

\* ---------------------------------------------------------------- C36
\* C36: once a call of processMessage has returned, every user message in
\* the history of the session is immediately followed by an assistant
\* message; a turn that ends in the fallback response leaves no unanswered
\* user message behind
C36_EveryUserMessageAnswered ==
  \A i \in 1..Len(messages) :
    messages[i].role = "user" =>
      /\ i < Len(messages)
      /\ messages[i + 1].role = "assistant"

\* ---------------------------------------------------------------- C37
WelcomeCount == Cardinality({i \in 1..Len(messages) : messages[i] = WalletWelcome})

\* C37: over any sequence of initializeWithWallet calls on one session
\* (connect, disconnect, reconnect, change of address) the wallet welcome is
\* in the history at most once: it is appended by the first call with a
\* non-null address and by no other call, and a call with null appends
\* nothing and sets the wallet address to null
C37_WelcomeAtMostOnce ==
  /\ [](WelcomeCount <= 1)
  /\ [][walletCalls' # walletCalls =>
          LET address == walletCalls'[Len(walletCalls')]
              first == \A i \in 1..Len(walletCalls) : walletCalls[i] = Null
          IN /\ walletAddress' = address
             /\ userProfile'.walletAddress = address
             /\ messages' = IF address # Null /\ first
                            THEN Append(messages, WalletWelcome) ELSE messages]_vars

\* connect, disconnect, then a different address: one welcome in a history
\* that also holds a turn of the conversation
C37_Witness ==
  /\ walletCalls = <<OwnAddress, Null, OtherAddress>>
  /\ walletAddress = OtherAddress
  /\ WelcomeCount = 1
  /\ Len(messages) > 1

\* ---------------------------------------------------------------- C38
\* C38: the id given to createAISystem is the id of the session it
\* creates: getSessionId() returns it, and it is the sessionId handed to
\* the generator by processMessage
C38_SessionIdIsTheOneGiven ==
  requestedSessionId # Null =>
    /\ GetSessionId = requestedSessionId
    /\ session.generated => session.request.sessionId = requestedSessionId

\* ---------------------------------------------------------------- C39
\* C39: sendAndConfirmTransaction never throws; its result has success =
\* true exactly when the send succeeded and the confirmation reported no
\* error, whatever getTransaction did for the block time; every successful
\* result carries the signature of the send; and a failed send gives
\* success = false with the error thrown and no signature
C39_TransactionResultReflectsOutcome ==
  \A n \in 1..Len(transactions) :
    LET t == transactions[n] IN
    /\ ~t.result.threw
    /\ t.result.success <=> /\ t.send.status = "ok"
                            /\ t.confirmation.status = "ok"
                            /\ t.confirmation.err = NoError
    /\ t.result.success => /\ t.result.signature = t.send.signature
                           /\ t.result.signature # Null
    /\ t.send.status = "throws" => /\ ~t.result.success
                                   /\ t.result.error = t.send.error
                                   /\ t.result.signature = Null

\* a confirmed transaction whose block time could not be obtained, after a
\* transaction whose send failed
C39_Witness ==
  /\ Len(transactions) = 2
  /\ transactions[1].send.status = "throws"
  /\ transactions[2].result.success
  /\ transactions[2].transaction.status = "throws"
  /\ transactions[2].result.blockTime = 0

\* ---------------------------------------------------------------- C40
FetchInFlight == \E i \in 1..Len(hook.started) : hook.started[i].status = "pending"

\* C40: while the component is mounted, isLoading is true whenever a fetch
\* of the market trends is in flight, so it is false only when none is,
\* also when a refresh of the interval and a manual refreshData overlap;
\* and once the fetches have settled, the list shown is the one of the
\* fetch that was started last
C40_LoadingWhileFetching ==
  hook.phase = "mounted" =>
    /\ FetchInFlight => hook.isLoading
    /\ (~FetchInFlight /\ hook.started # <<>>) => hook.shown = Len(hook.started)
====
